---- MODULE Spec2Model ----
(***************************************************************************)
(* NED Energy Forecast: the data update coordinator                        *)
(* (custom_components/ned_energy_forecast/coordinator.py) and the native   *)
(* linear regression it refits (linear_regression.py).                     *)
(*                                                                         *)
(* asyncio runs one coroutine at a time and switches only at an await that *)
(* really suspends (the HTTP request of _fetch_sensor_data, the recorder   *)
(* query of _fit_lr_model).  Every action below is therefore one handler   *)
(* run from one suspension to the next.                                    *)
(*                                                                         *)
(* Numbers: Python floats are modelled as exact rationals <<n, d>> in      *)
(* lowest terms with d > 0.  Time: `now` counts ticks of TickHours hours.  *)
(* Timestamps of provider records are ISO strings of one format, which     *)
(* Python orders lexicographically; they are modelled as naturals, 0 for   *)
(* an absent (None) timestamp.                                             *)
(***************************************************************************)
EXTENDS Integers, Sequences, FiniteSets, TLC

\* ------------------------------------------------------------------ bounds

\* The clock stops at MaxClock ticks.
MaxClock == 2

\* The most time-change listeners registered in one behaviour (two per call
\* of start_background_schedulers), and the most calls of one cancel handle.
MaxListeners == 4
MaxCancels == 2

\* The most direct runs of _fit_lr_model in one behaviour.
MaxRefits == 1

\* The most reads of a sensor in one behaviour, and the latest instant of a
\* read, in hours.
MaxReads == 1
MaxHour == 4

\* The most direct calls on one LinearRegression in one behaviour, and the
\* bits of the mantissa of a float.
MaxCalls == 3
MantissaBits == 4

\* The most direct calls of _calculate_epex_forecast_lr in one behaviour.
MaxForecasts == 1

\* ------------------------------------------------------- program constants

\* timedelta(hours=24) of _should_refit.
RefitAgeHours == 24

\* Hours in one tick of the clock: a tick is as long as the refit age, so
\* that a fit is 0, exactly 24, or 48 and more hours old.
TickHours == RefitAgeHours

\* const.MIN_DATAPOINTS (tens in production; scaled to the canned histories).
MIN_DATAPOINTS == 3

\* const.SOLAR_ON_GRID_FRACTION.
SOLAR_ON_GRID_FRACTION == <<1, 1>>

\* ----------------------------------------------------------- comprehensions

\* A list and a dict built by a comprehension or a loop: the value with
\* every element computed, once.
List(s) == <<>> \o s
Dict(f) == f @@ <<>>

\* -------------------------------------------------------------- rationals

Abs(i) == IF i < 0 THEN -i ELSE i

RECURSIVE Gcd(_, _)
Gcd(a, b) == IF b = 0 THEN a ELSE Gcd(b, a % b)

Rat(n, d) ==
    LET g == Gcd(Abs(n), Abs(d))
        s == IF d < 0 THEN -1 ELSE 1
    IN  <<(s * n) \div g, (s * d) \div g>>

RInt(i) == <<i, 1>>
RAdd(a, b) == Rat(a[1] * b[2] + b[1] * a[2], a[2] * b[2])
RSub(a, b) == Rat(a[1] * b[2] - b[1] * a[2], a[2] * b[2])
RMul(a, b) == Rat(a[1] * b[1], a[2] * b[2])
RDiv(a, b) == Rat(a[1] * b[2], a[2] * b[1])
RAbs(a) == <<Abs(a[1]), a[2]>>
RLess(a, b) == a[1] * b[2] < b[1] * a[2]
RMax(a, b) == IF RLess(a, b) THEN b ELSE a
RMin(a, b) == IF RLess(b, a) THEN b ELSE a

\* round(x, k) with scale = 10^k: the nearest multiple of 1/scale, a tie to
\* the even one.
Round(x, scale) ==
    LET a == x[1] * scale
        b == x[2]
        fl == a \div b
        twice == 2 * (a - fl * b)
        up == twice > b \/ (twice = b /\ fl % 2 = 1)
    IN  Rat(IF up THEN fl + 1 ELSE fl, scale)

RECURSIVE RSum(_)
RSum(s) == IF s = <<>> THEN RInt(0) ELSE RAdd(Head(s), RSum(Tail(s)))

\* ------------------------------------------------------ linear regression

\* abs(pivot) < 1e-10, written without a number beyond 32 bits.
PivotTooSmall(p) == Abs(p[1]) * 100000 <= (p[2] - 1) \div 100000

\* LinearRegression.__init__
NewLinearRegression ==
    [coefficients |-> <<>>, intercept |-> RInt(0), n_features |-> 0,
     is_fitted |-> FALSE]

\* _matrix_multiply_transpose: A^T * B
MatrixMultiplyTranspose(A, B) ==
    List([i \in 1..Len(A[1]) |->
            List([j \in 1..Len(B[1]) |->
                    RSum(List([k \in 1..Len(A) |-> RMul(A[k][i], B[k][j])]))])])

\* _matrix_vector_multiply_transpose: A^T * v
MatrixVectorMultiplyTranspose(A, v) ==
    List([i \in 1..Len(A[1]) |->
            RSum(List([j \in 1..Len(A) |-> RMul(A[j][i], v[j])]))])

\* _matrix_vector_multiply: A * v
MatrixVectorMultiply(A, v) ==
    List([i \in 1..Len(A) |->
            RSum(List([j \in 1..Len(v) |-> RMul(A[i][j], v[j])]))])

\* The pivot search of _matrix_inverse: the first row from i on with the
\* largest magnitude in column i.
RECURSIVE MaxRow(_, _, _, _)
MaxRow(aug, i, k, best) ==
    IF k > Len(aug) THEN best
    ELSE MaxRow(aug, i, k + 1,
                IF RLess(RAbs(aug[best][i]), RAbs(aug[k][i])) THEN k ELSE best)

\* The rows i and max_row of aug exchanged.
SwapRows(aug, i, max_row) ==
    List([r \in 1..Len(aug) |->
            IF r = i THEN aug[max_row]
            ELSE IF r = max_row THEN aug[i] ELSE aug[r]])

\* Row i divided by its pivot.
PivotRow(swapped, i) ==
    List([j \in 1..Len(swapped[i]) |-> RDiv(swapped[i][j], swapped[i][i])])

\* Column i eliminated from every other row.
Eliminate(swapped, i, prow) ==
    List([r \in 1..Len(swapped) |->
            IF r = i THEN prow
            ELSE List([j \in 1..Len(prow) |->
                         RSub(swapped[r][j], RMul(swapped[r][i], prow[j]))])])

\* One column of the Gauss-Jordan elimination of _matrix_inverse, then the
\* next; [singular |-> TRUE] is the ValueError of a pivot below 1e-10.
RECURSIVE GaussJordan(_, _)
RECURSIVE GaussJordanSwapped(_, _)
GaussJordanSwapped(swapped, i) ==
    IF PivotTooSmall(swapped[i][i])
    THEN [singular |-> TRUE, aug |-> swapped]
    ELSE GaussJordan(Eliminate(swapped, i, PivotRow(swapped, i)), i + 1)

GaussJordan(aug, i) ==
    IF i > Len(aug) THEN [singular |-> FALSE, aug |-> aug]
    ELSE GaussJordanSwapped(SwapRows(aug, i, MaxRow(aug, i, i + 1, i)), i)

\* [A | I]
Augmented(matrix) ==
    List([i \in 1..Len(matrix) |->
            List([j \in 1..(2 * Len(matrix)) |->
                    IF j <= Len(matrix) THEN matrix[i][j]
                    ELSE IF j - Len(matrix) = i THEN RInt(1) ELSE RInt(0)])])

\* The right half of the eliminated matrix.
RightHalf(gj, n) ==
    [singular |-> gj.singular,
     inverse |-> List([i \in 1..n |-> List([j \in 1..n |-> gj.aug[i][j + n]])])]

\* _matrix_inverse
MatrixInverse(matrix) ==
    RightHalf(GaussJordan(Augmented(matrix), 1), Len(matrix))

\* The end of fit: the coefficients assigned, or the ValueError.
FitSolved(s1, inv, c) ==
    IF inv.singular THEN [raised |-> TRUE, self |-> s1]
    ELSE [raised |-> FALSE,
          self |-> [s1 EXCEPT !.intercept = c[1],
                              !.coefficients = Tail(c),
                              !.is_fitted = TRUE]]

\* fit from the inversion on.
FitInverted(s1, inv, Xty) ==
    FitSolved(s1, inv, MatrixVectorMultiply(inv.inverse, Xty))

\* fit from the normal equations on.
FitNormal(s1, X_with_intercept, y) ==
    FitInverted(s1,
                MatrixInverse(MatrixMultiplyTranspose(X_with_intercept,
                                                      X_with_intercept)),
                MatrixVectorMultiplyTranspose(X_with_intercept, y))

\* LinearRegression.fit: [raised, self]; raised is the ValueError of fit.
Fit(self, X, y) ==
    IF Len(X) # Len(y) \/ Len(X) = 0 THEN [raised |-> TRUE, self |-> self]
    ELSE FitNormal([self EXCEPT !.n_features = Len(X[1])],
                   List([r \in 1..Len(X) |-> <<RInt(1)>> \o X[r]]), y)

\* The prediction of one row: intercept + sum(coef_i * x_i).
PredictRow(self, row) ==
    RAdd(self.intercept,
         RSum(List([i \in 1..Len(row) |-> RMul(self.coefficients[i], row[i])])))

\* LinearRegression.predict: [raised, value].
Predict(self, X) ==
    IF ~self.is_fitted \/ \E r \in 1..Len(X) : Len(X[r]) # self.n_features
    THEN [raised |-> TRUE, value |-> <<>>]
    ELSE [raised |-> FALSE,
          value |-> List([r \in 1..Len(X) |-> PredictRow(self, X[r])])]

\* LinearRegression.score of a fitted model: R^2, 0.0 when ss_tot is 0.
Score(self, X, y) ==
    LET predictions == Predict(self, X).value
        y_mean == RDiv(RSum(y), RInt(Len(y)))
        sq(v) == RMul(v, v)
        ss_tot == RSum(List([i \in 1..Len(y) |-> sq(RSub(y[i], y_mean))]))
        ss_res == RSum(List([i \in 1..Len(y) |-> sq(RSub(y[i], predictions[i]))]))
    IN  IF ss_tot = RInt(0) THEN RInt(0)
        ELSE RSub(RInt(1), RDiv(ss_res, ss_tot))

\* ------------------------------------------------------------ Python values

\* Optional values: None, or the value in a one-element sequence.
Some(v) == <<v>>
Val(o) == o[1]

\* A dict with one more key (an assignment d[k] = v).
Put(d, k, v) == Dict([x \in (DOMAIN d) \cup {k} |-> IF x = k THEN v ELSE d[x]])

EmptyDict == [x \in {} |-> <<>>]

RECURSIVE SortedSeq(_)

\* S in descending order.
SortedSeqDescending(S) ==
    [k \in 1..Cardinality(S) |->
        CHOOSE x \in S : Cardinality({z \in S : z > x}) = k - 1]

\* sorted(S) of a set of integers.
SortedSeq(S) ==
    IF S = {} THEN <<>>
    ELSE LET m == CHOOSE x \in S : \A z \in S : x <= z
         IN  <<m>> \o SortedSeq(S \ {m})

\* ------------------------------------------------------- _fetch_sensor_data

\* SENSOR_TYPES that are not calculated, in the order _async_update_data
\* fetches them.
FetchOrder == <<"consumption", "solar", "wind_onshore", "wind_offshore">>

\* list.sort(key=timestamp or ""): a stable insertion sort; an absent
\* timestamp (0) orders first.
RECURSIVE InsertByTimestamp(_, _)

\* An insertion before the records of equal timestamp.
InsertByTimestampUnstable(sorted, r) ==
    LET n == Cardinality({k \in 1..Len(sorted) :
                            sorted[k].timestamp < r.timestamp})
    IN  SubSeq(sorted, 1, n) \o <<r>> \o SubSeq(sorted, n + 1, Len(sorted))

InsertByTimestamp(sorted, r) ==
    IF sorted = <<>> THEN <<r>>
    ELSE LET last == sorted[Len(sorted)]
         IN  IF last.timestamp <= r.timestamp THEN Append(sorted, r)
             ELSE Append(InsertByTimestamp(SubSeq(sorted, 1, Len(sorted) - 1), r),
                         last)

RECURSIVE SortByTimestamp(_)
SortByTimestamp(s) ==
    IF s = <<>> THEN <<>>
    ELSE InsertByTimestamp(SortByTimestamp(SubSeq(s, 1, Len(s) - 1)), s[Len(s)])

\* The JSON values a record's "capacity" may hold: a number, null, or a
\* string that is no number.
Number(n) == [json |-> "number", n |-> n]
Null == [json |-> "null", n |-> 0]
Text == [json |-> "string", n |-> 0]

\* float(record.get("capacity", 0)): the exception it raises, or "none".
FloatError(capacity) ==
    CASE capacity.json = "number" -> "none"
      [] capacity.json = "null" -> "TypeError"
      [] OTHER -> "ValueError"

\* The first record of the parse loop on which float() raises, or 0.
RECURSIVE FirstMalformed(_, _)
FirstMalformed(records, k) ==
    IF k > Len(records) THEN 0
    ELSE IF FloatError(records[k].capacity) # "none" THEN k
    ELSE FirstMalformed(records, k + 1)

\* One provider record parsed: Watt to GW (capacity / 1000000.0).
ParseRecord(record) ==
    [capacity |-> Rat(record.capacity.n, 1000000),
     timestamp |-> record.validfrom,
     percentage |-> record.percentage]

\* The try block of _fetch_sensor_data: what it returns, or the exception
\* that leaves it.
FetchTry(response) ==
    IF response.error # "none" THEN [exc |-> response.error, ret |-> <<>>]
    ELSE IF response.status = 401 THEN [exc |-> "UpdateFailed", ret |-> <<>>]
    ELSE IF response.status = 403 THEN [exc |-> "UpdateFailed", ret |-> <<>>]
    ELSE IF response.status # 200 THEN [exc |-> "none", ret |-> <<>>]
    ELSE IF response.member = <<>> THEN [exc |-> "none", ret |-> <<>>]
    ELSE IF FirstMalformed(response.member, 1) # 0
    THEN [exc |-> FloatError(response.member[FirstMalformed(response.member, 1)].capacity),
          ret |-> <<>>]
    ELSE [exc |-> "none",
          ret |-> SortByTimestamp(List([k \in 1..Len(response.member) |->
                                          ParseRecord(response.member[k])]))]

\* A _fetch_sensor_data that lets the exceptions of its try block through.
FetchSensorDataRaising(response) ==
    LET tried == FetchTry(response)
    IN  [raised |-> tried.exc # "none", value |-> tried.ret]

\* _fetch_sensor_data: [raised, value].  `except aiohttp.ClientError` and
\* then `except Exception` both return []; UpdateFailed is an Exception.
FetchSensorData(response) ==
    LET tried == FetchTry(response)
    IN  IF tried.exc = "ClientError" THEN [raised |-> FALSE, value |-> <<>>]
        ELSE IF tried.exc # "none" THEN [raised |-> FALSE, value |-> <<>>]
        ELSE [raised |-> FALSE, value |-> tried.ret]

\* ------------------------------------------------------ derived quantities

SourceKeys == {"wind_onshore", "wind_offshore", "solar", "consumption"}

\* all(k in data and data[k] for k in (...)) of _async_update_data.
AllFour(d) == \A k \in SourceKeys : k \in DOMAIN d /\ d[k] # <<>>

\* The two calculated series written into data.
PutTotals(d, ts, total_renewable, coverage_pct) ==
    Put(Put(d, "total_renewable",
            <<[capacity |-> total_renewable, timestamp |-> ts,
               percentage |-> <<>>]>>),
        "coverage_percentage",
        <<[capacity |-> coverage_pct, timestamp |-> ts,
           percentage |-> Some(coverage_pct)]>>)

\* coverage_pct of _async_update_data.
CoveragePct(total_renewable, consumption) ==
    IF RLess(RInt(0), consumption)
    THEN RMul(RDiv(total_renewable, consumption), RInt(100))
    ELSE RInt(0)

\* total_renewable and coverage_percentage of _async_update_data, from the
\* first record of each series.
TotalAndCoverage(d) ==
    LET wind_on == d["wind_onshore"][1].capacity
        wind_off == d["wind_offshore"][1].capacity
        solar_val == d["solar"][1].capacity
        consumption == d["consumption"][1].capacity
        solar_on_grid == RMul(solar_val, SOLAR_ON_GRID_FRACTION)
        total_renewable == RAdd(RAdd(wind_on, wind_off), solar_on_grid)
    IN  PutTotals(d, d["wind_onshore"][1].timestamp,
                  Round(total_renewable, 10),
                  Round(CoveragePct(total_renewable, consumption), 10))

\* A timestamp that is a JSON object (a validfrom such as {"date": ...}):
\* a dict, truthy and not hashable.
Unhashable == 9

\* `combined[ts] = ...` and `ts in combined` of the two forecast functions
\* raise TypeError for such a timestamp in any of the four series.
HasUnhashable(d) ==
    \E key \in SourceKeys :
        \E k \in 1..Len(d[key]) : d[key][k].timestamp = Unhashable

\* The records of a series with timestamp ts.
At(series, ts) == SelectSeq(series, LAMBDA r : r.timestamp = ts)

\* `combined` of the two forecast functions: keyed by the non-empty
\* timestamps of wind_onshore; a later record of a timestamp overwrites an
\* earlier one; the other series fill in only timestamps already present.
CombinedKeys(d) ==
    {d["wind_onshore"][k].timestamp : k \in 1..Len(d["wind_onshore"])} \ {0}

CombinedHas(d, ts, key) == At(d[key], ts) # <<>>

CombinedGet(d, ts, key) == LET s == At(d[key], ts) IN s[Len(s)].capacity

\* The complete records of `combined`, in sorted(combined.items()) order.
CompleteTimestamps(d) ==
    SortedSeq({ts \in CombinedKeys(d) :
                 \A key \in SourceKeys : CombinedHas(d, ts, key)})

\* consumption - (wind_onshore + wind_offshore + solar * fraction) at ts.
ResidualAt(d, ts) ==
    LET solar_on_grid == RMul(CombinedGet(d, ts, "solar"), SOLAR_ON_GRID_FRACTION)
        renewables_total == RAdd(RAdd(CombinedGet(d, ts, "wind_onshore"),
                                      CombinedGet(d, ts, "wind_offshore")),
                                 solar_on_grid)
    IN  RSub(CombinedGet(d, ts, "consumption"), renewables_total)

\* The fallback formula with its two constants exchanged.
FallbackPriceSwapped(restlast_gw) ==
    RAdd(RMul(Rat(45, 100), restlast_gw), Rat(108, 100))

\* epex_price = (1.08 * restlast_gw) + 0.45
FallbackPrice(restlast_gw) == RAdd(RMul(Rat(108, 100), restlast_gw), Rat(45, 100))

\* A fallback that computes no forecast.
NoFallbackForecast(d) == d

\* if epex_forecast: data["forecast_epex_price"] = epex_forecast
PutForecast(d, epex_forecast) ==
    IF epex_forecast # <<>> THEN Put(d, "forecast_epex_price", epex_forecast)
    ELSE d

\* The fallback records of the complete timestamps tss.
FallbackRecords(d, tss) ==
    List([k \in 1..Len(tss) |->
            [capacity |-> Round(FallbackPrice(ResidualAt(d, tss[k])), 1000),
             timestamp |-> tss[k], percentage |-> <<>>]])

\* _calculate_epex_fallback; its `except Exception` logs the TypeError of
\* `combined` and leaves data as it is.
CalculateEpexFallback(d) ==
    IF HasUnhashable(d) THEN d
    ELSE PutForecast(d, FallbackRecords(d, CompleteTimestamps(d)))

\* A limit from below only.
ClampLowOnly(p) == RMax(RInt(-5), p)

\* max(-5.0, min(50.0, price_prediction))
Clamp(p) == RMax(RInt(-5), RMin(RInt(50), p))

\* model.predict([[restlast_gw]]) at each of the timestamps tss.
Predictions(d, model, tss) ==
    List([k \in 1..Len(tss) |-> Predict(model, <<<<ResidualAt(d, tss[k])>>>>)])

\* The regression records of the timestamps tss: [raised, value]; raised is
\* an exception out of predict.
LrRecords(d, tss, preds) ==
    IF \E k \in 1..Len(tss) : preds[k].raised
    THEN [raised |-> TRUE, value |-> d]
    ELSE [raised |-> FALSE,
          value |-> PutForecast(d, List([k \in 1..Len(tss) |->
              [capacity |-> Round(Clamp(preds[k].value[1]), 1000),
               timestamp |-> tss[k], percentage |-> <<>>]]))]

\* The regression forecast over the complete timestamps tss.
LrForecastAt(d, model, tss) == LrRecords(d, tss, Predictions(d, model, tss))

\* The regression forecast of _calculate_epex_forecast_lr with a model
\* present.
LrForecast(d, model) ==
    IF HasUnhashable(d) THEN [raised |-> TRUE, value |-> d]
    ELSE LrForecastAt(d, model, CompleteTimestamps(d))

\* An except branch that logs the error and computes nothing.
ForecastOrNothing(d, f) == f.value

\* The except branch of _calculate_epex_forecast_lr: the fallback when the
\* regression path raised.
ForecastOrFallback(d, f) ==
    IF f.raised THEN CalculateEpexFallback(d) ELSE f.value

\* _calculate_epex_forecast_lr from the line after the refit: the fallback
\* when there is no model, the regression forecast otherwise, and the
\* fallback again when the regression path raises.
EpexForecastAfterFit(d, model) ==
    IF model = <<>> THEN CalculateEpexFallback(d)
    ELSE IF ~AllFour(d) THEN d
    ELSE ForecastOrFallback(d, LrForecast(d, Val(model)))

\* The model_r2_score sensor entry of _async_update_data.  Its timestamp,
\* the wall-clock text of the moment it is built, is left out of the record.
WithModelScore(d, r2, datapoints, fit_time) ==
    IF r2 = <<>> THEN d
    ELSE Put(d, "model_r2_score",
             <<[capacity |-> Round(Val(r2), 10000), percentage |-> <<>>,
                datapoints |-> datapoints, last_fit |-> fit_time]>>)

\* The refit age compared with >= instead of >.
ShouldRefitAtLeast(fit_time, at) ==
    IF fit_time = <<>> THEN TRUE
    ELSE (at - Val(fit_time)) * TickHours >= RefitAgeHours

\* _should_refit: no fit yet, or the last one more than 24 hours ago.
ShouldRefit(fit_time, at) ==
    IF fit_time = <<>> THEN TRUE
    ELSE (at - Val(fit_time)) * TickHours > RefitAgeHours

\* ----------------------------------------------------------- _fit_lr_model

PriceSensorId == "sensor.price"

\* entity_ids of _fit_lr_model, in query order.
EntityIds ==
    <<"sensor.ned_forecast_consumption", "sensor.ned_forecast_wind_onshore",
      "sensor.ned_forecast_wind_offshore", "sensor.ned_forecast_solar",
      PriceSensorId>>

\* float(state.state) of the recorder's state strings: [ok, value]; a
\* string that is no number raises ValueError.
ParseFloat(str) ==
    CASE str = "1" -> [ok |-> TRUE, value |-> RInt(1)]
      [] str = "2" -> [ok |-> TRUE, value |-> RInt(2)]
      [] str = "3" -> [ok |-> TRUE, value |-> RInt(3)]
      [] str = "4" -> [ok |-> TRUE, value |-> RInt(4)]
      [] str = "5" -> [ok |-> TRUE, value |-> RInt(5)]
      [] str = "6" -> [ok |-> TRUE, value |-> RInt(6)]
      [] OTHER -> [ok |-> FALSE, value |-> RInt(0)]

\* last_updated.replace(minute=0, second=0, microsecond=0), in minutes.
FloorHour(minutes) == minutes - (minutes % 60)

\* A bucketing that opens the bucket of the hour, and counts the state in
\* it, before float(state.state) can raise.
BucketStatesCountingAll(states) ==
    LET numeric == SelectSeq(states, LAMBDA st : ParseFloat(st.state).ok)
        hours == {FloorHour(states[k].last_updated) : k \in 1..Len(states)}
        mean(h) ==
            LET values == SelectSeq(numeric,
                                    LAMBDA st : FloorHour(st.last_updated) = h)
                counted == SelectSeq(states,
                                     LAMBDA st : FloorHour(st.last_updated) = h)
            IN  RDiv(RSum(List([k \in 1..Len(values) |->
                                  ParseFloat(values[k].state).value])),
                     RInt(Len(counted)))
    IN  Dict([h \in hours |-> mean(h)])

\* bucket_states_by_hour: {hour: mean of the numeric states of that hour}.
BucketStatesByHour(states) ==
    LET numeric == SelectSeq(states, LAMBDA st : ParseFloat(st.state).ok)
        hours == {FloorHour(numeric[k].last_updated) : k \in 1..Len(numeric)}
        mean(h) ==
            LET values == SelectSeq(numeric,
                                    LAMBDA st : FloorHour(st.last_updated) = h)
            IN  RDiv(RSum(List([k \in 1..Len(values) |->
                                  ParseFloat(values[k].state).value])),
                     RInt(Len(values)))
    IN  Dict([h \in hours |-> mean(h)])

\* A matching loop that skips the hours without a solar bucket as well.
MatchHoursNeedingSolar(consumption_hourly, wind_on_hourly, wind_off_hourly, solar_hourly, price_hourly) ==
    LET hours == DOMAIN consumption_hourly
        matched == SortedSeq({h \in hours : /\ h \in DOMAIN wind_on_hourly
                                            /\ h \in DOMAIN wind_off_hourly
                                            /\ h \in DOMAIN solar_hourly
                                            /\ h \in DOMAIN price_hourly})
    IN  [X_list |-> List([k \in 1..Len(matched) |->
                            <<RSub(consumption_hourly[matched[k]],
                                   RAdd(RAdd(wind_on_hourly[matched[k]],
                                             wind_off_hourly[matched[k]]),
                                        RMul(solar_hourly[matched[k]],
                                             SOLAR_ON_GRID_FRACTION)))>>]),
         y_list |-> List([k \in 1..Len(matched) |-> price_hourly[matched[k]]]),
         matched_hours |-> Len(matched),
         total_consumption_hours |-> Cardinality(hours),
         solar_real_count |-> Cardinality(hours \cap DOMAIN solar_hourly),
         solar_imputed_count |-> Cardinality(hours \ DOMAIN solar_hourly),
         missing_wind_on |-> Cardinality(hours \ DOMAIN wind_on_hourly),
         missing_wind_off |-> Cardinality(hours \ DOMAIN wind_off_hourly),
         missing_price |-> Cardinality(hours \ DOMAIN price_hourly)]

\* A matching loop that counts, for a skipped hour, only the first of the
\* streams it lacks.
MatchHoursFirstReason(consumption_hourly, wind_on_hourly, wind_off_hourly, solar_hourly, price_hourly) ==
    LET hours == DOMAIN consumption_hourly
        matched == SortedSeq({h \in hours : /\ h \in DOMAIN wind_on_hourly
                                            /\ h \in DOMAIN wind_off_hourly
                                            /\ h \in DOMAIN price_hourly})
        solar(h) == IF h \in DOMAIN solar_hourly THEN solar_hourly[h] ELSE RInt(0)
        residual(h) ==
            RSub(consumption_hourly[h],
                 RAdd(RAdd(wind_on_hourly[h], wind_off_hourly[h]),
                      RMul(solar(h), SOLAR_ON_GRID_FRACTION)))
    IN  [X_list |-> List([k \in 1..Len(matched) |-> <<residual(matched[k])>>]),
         y_list |-> List([k \in 1..Len(matched) |-> price_hourly[matched[k]]]),
         matched_hours |-> Len(matched),
         total_consumption_hours |-> Cardinality(hours),
         solar_real_count |-> Cardinality(hours \cap DOMAIN solar_hourly),
         solar_imputed_count |-> Cardinality(hours \ DOMAIN solar_hourly),
         missing_wind_on |-> Cardinality(hours \ DOMAIN wind_on_hourly),
         missing_wind_off |->
             Cardinality((hours \cap DOMAIN wind_on_hourly) \ DOMAIN wind_off_hourly),
         missing_price |->
             Cardinality((hours \cap DOMAIN wind_on_hourly \cap DOMAIN wind_off_hourly)
                             \ DOMAIN price_hourly)]

\* The matching loop of _fit_lr_model over the consumption hours: the
\* training rows and the coverage counters.
MatchHours(consumption_hourly, wind_on_hourly, wind_off_hourly, solar_hourly, price_hourly) ==
    LET hours == DOMAIN consumption_hourly
        matched == SortedSeq({h \in hours : /\ h \in DOMAIN wind_on_hourly
                                            /\ h \in DOMAIN wind_off_hourly
                                            /\ h \in DOMAIN price_hourly})
        solar(h) == IF h \in DOMAIN solar_hourly THEN solar_hourly[h] ELSE RInt(0)
        residual(h) ==
            RSub(consumption_hourly[h],
                 RAdd(RAdd(wind_on_hourly[h], wind_off_hourly[h]),
                      RMul(solar(h), SOLAR_ON_GRID_FRACTION)))
    IN  [X_list |-> List([k \in 1..Len(matched) |-> <<residual(matched[k])>>]),
         y_list |-> List([k \in 1..Len(matched) |-> price_hourly[matched[k]]]),
         matched_hours |-> Len(matched),
         total_consumption_hours |-> Cardinality(hours),
         solar_real_count |-> Cardinality(hours \cap DOMAIN solar_hourly),
         solar_imputed_count |-> Cardinality(hours \ DOMAIN solar_hourly),
         missing_wind_on |-> Cardinality(hours \ DOMAIN wind_on_hourly),
         missing_wind_off |-> Cardinality(hours \ DOMAIN wind_off_hourly),
         missing_price |-> Cardinality(hours \ DOMAIN price_hourly)]

\* The hourly buckets of the five histories, then the matching loop.
BuildTrainingSet(historical_records) ==
    MatchHours(BucketStatesByHour(historical_records[EntityIds[1]]),
               BucketStatesByHour(historical_records[EntityIds[2]]),
               BucketStatesByHour(historical_records[EntityIds[3]]),
               BucketStatesByHour(historical_records[EntityIds[4]]),
               BucketStatesByHour(historical_records[EntityIds[5]]))

\* The model and its metrics as the coordinator holds them.
ModelState(model, fit_time, r2, datapoints) ==
    [lr_model |-> model, last_fit_time |-> fit_time,
     model_r2_score |-> r2, model_datapoints |-> datapoints]

\* An except branch of _fit_lr_model that keeps the model.
FitFailedKeeping(m) == m

\* The except branch of _fit_lr_model: the model and two of its metrics are
\* cleared; last_fit_time is not touched.
FitFailed(m) ==
    [m EXCEPT !.lr_model = <<>>, !.model_r2_score = <<>>,
              !.model_datapoints = <<>>]

\* A return below MIN_DATAPOINTS that drops the model.
FitSkippedClearing(m) ==
    [m EXCEPT !.lr_model = <<>>, !.model_r2_score = <<>>,
              !.model_datapoints = <<>>]

\* The return below MIN_DATAPOINTS: nothing is assigned.
FitSkipped(m) == m

\* A successful fit that keeps the metrics of the model it replaces.
FitSucceededStaleMetrics(m, fitted, X, y, at) ==
    [lr_model |-> Some(fitted), last_fit_time |-> Some(at),
     model_r2_score |-> IF m.model_r2_score = <<>>
                        THEN Some(Score(fitted, X, y)) ELSE m.model_r2_score,
     model_datapoints |-> IF m.model_datapoints = <<>>
                          THEN Some(Len(X)) ELSE m.model_datapoints]

\* The assignments of a fit that succeeded.
FitSucceeded(m, fitted, X, y, at) ==
    [lr_model |-> Some(fitted), last_fit_time |-> Some(at),
     model_r2_score |-> Some(Score(fitted, X, y)),
     model_datapoints |-> Some(Len(X))]

\* fit() on the training set ts unless it is below MIN_DATAPOINTS.
FitOn(ts) ==
    [X_list |-> ts.X_list, y_list |-> ts.y_list,
     fit |-> IF Len(ts.X_list) < MIN_DATAPOINTS
             THEN [raised |-> FALSE, self |-> NewLinearRegression]
             ELSE Fit(NewLinearRegression, ts.X_list, ts.y_list)]

\* _fit_lr_model from the matching loop to fit(): the training set, and the
\* outcome of LinearRegression().fit on it.
TrainOn(historical_records) == FitOn(BuildTrainingSet(historical_records))

\* ------------------------------------------------------------------ inputs

ProviderRecord(watt, validfrom) ==
    [capacity |-> Number(watt), validfrom |-> validfrom, percentage |-> <<>>]

\* The "hydra:member" lists the provider may answer with, per type.  The
\* second wind_offshore list shares no timestamp with the other types.
Members(key) ==
    CASE key = "consumption" ->
           {<<ProviderRecord(9000000, 2), ProviderRecord(10000000, 1)>>}
      [] key = "solar" ->
           {<<ProviderRecord(0, 1), ProviderRecord(1000000, 2)>>}
      [] key = "wind_onshore" ->
           {<<ProviderRecord(2000000, 1), ProviderRecord(2000000, 2)>>}
      [] key = "wind_offshore" ->
           {<<ProviderRecord(1000000, 1), ProviderRecord(1000000, 2)>>,
            <<ProviderRecord(1000000, 3)>>}

HttpResponse(status, member) ==
    [error |-> "none", status |-> status, member |-> member]

\* What session.get may produce for one type.  The third fetch of a cycle
\* is answered 200 or 401; the last one 200 with records or none, 403,
\* another status, or fails with aiohttp.ClientError.
Responses(key) ==
    {HttpResponse(200, mem) : mem \in Members(key)}
        \cup (IF key = "wind_onshore" THEN {HttpResponse(401, <<>>)} ELSE {})
        \cup (IF key = "wind_offshore"
              THEN {HttpResponse(200, <<>>), HttpResponse(403, <<>>),
                    HttpResponse(500, <<>>),
                    [error |-> "ClientError", status |-> 0, member |-> <<>>]}
              ELSE {})

\* A wider choice of "hydra:member" lists: records out of order, without a
\* validfrom (0), with one timestamp twice, with a capacity that is null or
\* no number, and capacities that put the residual load at 7, 27 and -3 GW.
WideMembers(key) ==
    CASE key = "consumption" ->
           {<<ProviderRecord(9000000, 2), ProviderRecord(10000000, 1),
              ProviderRecord(10000000, 3)>>,
            <<ProviderRecord(0, 1), ProviderRecord(30000000, 2)>>,
            <<ProviderRecord(10000000, 1), ProviderRecord(8000000, 0)>>}
      [] key = "solar" ->
           {<<ProviderRecord(0, 1), ProviderRecord(1000000, 2),
              ProviderRecord(0, 3)>>,
            <<ProviderRecord(1000000, 1), ProviderRecord(0, 2),
              ProviderRecord(0, 1)>>}
      [] key = "wind_onshore" ->
           {<<ProviderRecord(2000000, 1), ProviderRecord(2000000, 2),
              ProviderRecord(2000000, 3)>>,
            <<ProviderRecord(2000000, 1),
              [capacity |-> Null, validfrom |-> 2, percentage |-> <<>>],
              ProviderRecord(2000000, 3)>>}
      [] key = "wind_offshore" ->
           {<<ProviderRecord(1000000, 3), ProviderRecord(1000000, 2),
              ProviderRecord(1000000, 1)>>,
            <<[capacity |-> Text, validfrom |-> 1, percentage |-> <<>>],
              ProviderRecord(1000000, 2)>>}

\* What session.get may produce for one type, with the wider lists: 200
\* with records, another status, or (for the last type) ClientError.
WideResponses(key) ==
    {HttpResponse(200, mem) : mem \in WideMembers(key)}
        \cup {HttpResponse(500, <<>>)}
        \cup (IF key = "wind_offshore"
              THEN {[error |-> "ClientError", status |-> 0, member |-> <<>>]}
              ELSE {})

State(minutes, str) == [last_updated |-> minutes, state |-> str]

\* The state histories the recorder may hold for the entity of query j.
\* Residuals of the hours 0..4: 1, 2, 3, 1, 1.  The price histories give
\* three rows on residuals 1, 2, 3 (two of them), three rows on residual 1
\* alone (a singular normal matrix), and two rows.
Histories(j) ==
    CASE j = 1 -> {<<State(0, "3"), State(30, "5"), State(60, "5"), State(120, "6"),
                     State(180, "4"), State(240, "4")>>}
      [] j = 2 -> {<<State(5, "1"), State(65, "1"), State(70, "unknown"),
                     State(125, "1"), State(185, "1"), State(245, "1")>>}
      [] j = 3 -> {<<State(0, "1"), State(60, "1"), State(120, "1"),
                     State(180, "1"), State(240, "1")>>}
      [] j = 4 -> {<<State(0, "1"), State(60, "1"), State(120, "1"),
                     State(180, "1"), State(240, "1")>>}
      [] j = 5 -> {<<State(0, "2"), State(60, "4"), State(120, "6")>>,
                   <<State(0, "1"), State(60, "3"), State(120, "3")>>,
                   <<State(0, "2"), State(180, "2"), State(240, "3")>>,
                   <<State(0, "2"), State(60, "4")>>}

\* What one history query may produce: the entity's states, a result
\* without the entity, or an exception out of the recorder.
HistoryAnswers(j) ==
    {[raised |-> FALSE, states |-> Some(h)] : h \in Histories(j)}
        \cup (IF j = 5 THEN {[raised |-> FALSE, states |-> <<>>]} ELSE {})
        \cup {[raised |-> TRUE, states |-> <<>>]}

\* The history values the recorder may answer query j with (an absent
\* entity counts as no states).
HistoryValues(j) == Histories(j) \cup (IF j = 5 THEN {<<>>} ELSE {})

\* historical_records after the five queries, for every such answer.
RecorderResults ==
    {EntityIds[1] :> h1 @@ EntityIds[2] :> h2 @@ EntityIds[3] :> h3
        @@ EntityIds[4] :> h4 @@ EntityIds[5] :> h5 :
        h1 \in HistoryValues(1), h2 \in HistoryValues(2),
        h3 \in HistoryValues(3), h4 \in HistoryValues(4),
        h5 \in HistoryValues(5)}

\* TrainOn of each of them, computed once.
Trained == Dict([hr \in RecorderResults |-> TrainOn(hr)])

\* The end of _fit_lr_model on the training outcome tr: [m, logged], the
\* model state it leaves and the record it logs.
FitOutcome(m, tr, at) ==
    IF Len(tr.X_list) < MIN_DATAPOINTS
    THEN [m |-> FitSkipped(m), logged |-> "fit_insufficient"]
    ELSE IF tr.fit.raised
    THEN [m |-> FitFailed(m), logged |-> "fit_error"]
    ELSE [m |-> FitSucceeded(m, tr.fit.self, tr.X_list, tr.y_list, at),
          logged |-> "fit_ok"]

\* _fit_lr_model from the last history query to its end.
FitLrModelTail(m, historical_records, at) ==
    FitOutcome(m, Trained[historical_records], at)

\* ------------------------------------------------------------------- state

Handlers == {"first_refresh", "hourly", "daily"}

VARIABLES
    price_sensor,         \* entry.options.get(CONF_PRICE_SENSOR), or None
    lr_model,             \* the LinearRegression in use, or None
    last_fit_time,        \* the tick of the last successful fit, or None
    model_r2_score,       \* or None
    model_datapoints,     \* or None
    data,                 \* coordinator.data: the published map, or None
    cancel_hourly_update, \* _cancel_hourly_update, or None
    cancel_daily_refit,   \* _cancel_daily_refit, or None
    listeners,            \* hass: the time-change listeners ever registered
    now,                  \* the clock, in ticks
    tasks,                \* per handler: where its coroutine is suspended
    log,                  \* what the last step logged
    regression,           \* a LinearRegression of its own, called directly
    call,                 \* the last direct call: what was called, on what,
                          \* and what it returned or raised
    flow                  \* the config flow: its step, what it stored, the
                          \* entry it created and the coordinator set up
                          \* from that entry

modelVars == <<lr_model, last_fit_time, model_r2_score, model_datapoints>>
schedVars == <<cancel_hourly_update, cancel_daily_refit, listeners>>
unitVars == <<regression, call, flow>>
vars == <<price_sensor, modelVars, data, schedVars, now, tasks, log, unitVars>>

\* No direct call was made; n counts the direct calls.
NoCall == [op |-> "none", n |-> 0]

\* A config flow that was not started: no form shown, nothing stored, no
\* entry, no coordinator.
NoFlow ==
    [step |-> "none", errors |-> EmptyDict, api_key |-> <<>>,
     forecast_hours |-> <<>>, entry |-> <<>>, coordinator |-> <<>>,
     last |-> [step |-> "none", response |-> "none", sensor |-> <<>>,
               state |-> <<>>]]

\* A handler that is not running.  The fatal field of a running handler
\* tells whether a fetch of its refresh cycle was answered 401 or 403.
Idle ==
    [pc |-> "idle", i |-> 0, ctx |-> "none", d |-> EmptyDict,
     hr |-> EmptyDict, fatal |-> FALSE]

\* The end of async_config_entry_first_refresh.
Done(c) == [c EXCEPT !.task = [Idle EXCEPT !.pc = "done"]]

\* async_refresh: _async_update_data up to the first fetch.
StartRefresh(c) ==
    [c EXCEPT !.task = [pc |-> "fetch", i |-> 1, ctx |-> "none",
                        d |-> EmptyDict, hr |-> EmptyDict, fatal |-> FALSE]]

\* _fit_lr_model up to its first history query.
EnterFit(c, ctx) ==
    [c EXCEPT !.task = [@ EXCEPT !.pc = "history", !.i = 1, !.ctx = ctx,
                                 !.hr = EmptyDict]]

\* An async_config_entry_first_refresh, with a _fit_lr_model, that fits
\* whether or not a price sensor is configured.
FirstRefreshHookUnguarded(c) == EnterFit(c, "hook")

\* async_config_entry_first_refresh after the refresh: the initial fit.
FirstRefreshHook(c) ==
    IF price_sensor # <<>> THEN EnterFit(c, "hook") ELSE Done(c)

\* The handler after its refresh ended.
AfterRefresh(c, t) ==
    LET c1 == [c EXCEPT !.task = Idle]
    IN  IF t = "first_refresh" THEN FirstRefreshHook(c1) ELSE c1

\* _async_update_data returned d: async_refresh publishes it.
Publish(c, t, d) ==
    AfterRefresh([c EXCEPT !.data = Some(d), !.log = @ \cup {"update_ok"}], t)

\* UpdateFailed left _async_update_data: the published map is kept; a first
\* refresh that fails ends the setup.
UpdateFailed(c, t) ==
    LET c1 == [c EXCEPT !.log = @ \cup {"update_failed"}]
    IN  IF t = "first_refresh" THEN Done(c1)
        ELSE [c1 EXCEPT !.task = Idle]

\* An _async_update_data without the except clauses around the forecast:
\* the TypeError reaches the outer except.
FinishUpdateRaising(c, t) ==
    IF HasUnhashable(c.task.d) THEN UpdateFailed(c, t)
    ELSE Publish(c, t, WithModelScore(EpexForecastAfterFit(c.task.d, c.m.lr_model),
                                      c.m.model_r2_score, c.m.model_datapoints,
                                      c.m.last_fit_time))

\* _async_update_data from the forecast after the refit to `return data`.
FinishUpdate(c, t) ==
    LET d1 == EpexForecastAfterFit(c.task.d, c.m.lr_model)
    IN  Publish(c, t, WithModelScore(d1, c.m.model_r2_score,
                                     c.m.model_datapoints, c.m.last_fit_time))

\* The refit condition of _calculate_epex_forecast_lr.
NeedsRefit(m, at) == m.lr_model = <<>> \/ ShouldRefit(m.last_fit_time, at)

\* _async_update_data from `if self.price_sensor:` on, the totals written.
AfterTotals(c1, t) ==
    IF price_sensor = <<>>
    THEN Publish(c1, t, WithModelScore(c1.task.d, c1.m.model_r2_score,
                        c1.m.model_datapoints, c1.m.last_fit_time))
    ELSE IF NeedsRefit(c1.m, now) THEN EnterFit(c1, "refresh")
    ELSE FinishUpdate(c1, t)

\* An _async_update_data that adds the model score to every map.
AfterFetchesAlwaysScore(c, t) ==
    IF ~AllFour(c.task.d)
    THEN Publish(c, t, WithModelScore(c.task.d, c.m.model_r2_score,
                                      c.m.model_datapoints, c.m.last_fit_time))
    ELSE AfterTotals([c EXCEPT !.task.d = TotalAndCoverage(@)], t)

\* _async_update_data after the last fetch.
AfterFetches(c, t) ==
    IF ~AllFour(c.task.d) THEN Publish(c, t, c.task.d)
    ELSE AfterTotals([c EXCEPT !.task.d = TotalAndCoverage(@)], t)

\* The caller of _fit_lr_model after it returned.
AfterFit(c, t) ==
    LET c1 == [c EXCEPT !.task.hr = EmptyDict]
    IN  CASE c.task.ctx = "refresh" -> FinishUpdate(c1, t)
          [] c.task.ctx = "hook" -> Done(c1)
          [] c.task.ctx = "daily" -> StartRefresh(c1)

\* The fetch of type key returned r: the next fetch, or the rest of
\* _async_update_data.
Fetched(c1, t, key, r) ==
    IF r.raised THEN UpdateFailed(c1, t)
    ELSE IF c1.task.i < Len(FetchOrder)
    THEN [c1 EXCEPT !.task.d = Put(@, key, r.value), !.task.i = @ + 1]
    ELSE AfterFetches([c1 EXCEPT !.task.d = Put(@, key, r.value),
                                 !.task.i = @ + 1], t)

\* One answer to the fetch the handler awaits.
OnFetch(c, t, response) ==
    LET fatal == response.error = "none" /\ response.status \in {401, 403}
        unavailable == \/ response.error = "ClientError"
                       \/ response.error = "none"
                          /\ response.status \notin {200, 401, 403}
        unexpected == FetchTry(response).exc \notin {"none", "ClientError"}
    IN  Fetched([c EXCEPT !.task.fatal = @ \/ fatal,
                          !.log = @ \cup (IF fatal THEN {"http_fatal"} ELSE {})
                                    \cup (IF unavailable
                                          THEN {"fetch_unavailable"} ELSE {})
                                    \cup (IF unexpected
                                          THEN {"fetch_unexpected"} ELSE {})],
                t, FetchOrder[c.task.i], FetchSensorData(response))

\* _fit_lr_model ended with tail: its caller goes on.
FitReturned(c1, t, tail) ==
    AfterFit([c1 EXCEPT !.m = tail.m, !.log = @ \cup {tail.logged}], t)

\* The history query of entity_id returned states.
Queried(c, entity_id, states) ==
    [c EXCEPT !.task.hr = Put(@, entity_id, states), !.task.i = @ + 1]

\* The last history query answered: the rest of _fit_lr_model.
LastQueried(c1, t) == FitReturned(c1, t, FitLrModelTail(c1.m, c1.task.hr, now))

\* One answer to the history query the handler awaits.
OnHistory(c, t, answer) ==
    IF answer.raised
    THEN AfterFit([c EXCEPT !.m = FitFailed(@), !.log = @ \cup {"fit_error"}], t)
    ELSE IF c.task.i < Len(EntityIds)
    THEN Queried(c, EntityIds[c.task.i],
                 IF answer.states = <<>> THEN <<>> ELSE Val(answer.states))
    ELSE LastQueried(Queried(c, EntityIds[c.task.i],
                             IF answer.states = <<>> THEN <<>>
                             ELSE Val(answer.states)), t)

\* The coordinator as handler t sees it at the start of a step.
Ctx(t) ==
    [m |-> ModelState(lr_model, last_fit_time, model_r2_score, model_datapoints),
     data |-> data, task |-> tasks[t], log |-> {}]

\* The coordinator after handler t ran to its next suspension, c being one
\* of `after`.
Commit(t, after) ==
    \E c \in after :
    /\ lr_model' = c.m.lr_model
    /\ last_fit_time' = c.m.last_fit_time
    /\ model_r2_score' = c.m.model_r2_score
    /\ model_datapoints' = c.m.model_datapoints
    /\ data' = c.data
    /\ tasks' = [tasks EXCEPT ![t] = c.task]
    /\ log' = c.log

\* ----------------------------------------------------------------- actions

Init ==
    /\ price_sensor \in {<<>>, Some(PriceSensorId)}
    /\ lr_model = <<>>
    /\ last_fit_time = <<>>
    /\ model_r2_score = <<>>
    /\ model_datapoints = <<>>
    /\ data = <<>>
    /\ cancel_hourly_update = <<>>
    /\ cancel_daily_refit = <<>>
    /\ listeners = <<>>
    /\ now = 0
    /\ tasks = [t \in Handlers |-> Idle]
    /\ log = {}
    /\ regression = NewLinearRegression
    /\ call = NoCall
    /\ flow = NoFlow

\* Time passes: a tick of the clock, between any two steps of the handlers.
Tick ==
    /\ now < MaxClock
    /\ now' = now + 1
    /\ log' = {}
    /\ UNCHANGED <<unitVars, price_sensor, modelVars, data, schedVars, tasks>>

\* The setup calls async_config_entry_first_refresh.
AsyncConfigEntryFirstRefresh ==
    /\ tasks["first_refresh"].pc = "idle"
    /\ Commit("first_refresh", {StartRefresh(Ctx("first_refresh"))})
    /\ UNCHANGED <<unitVars, price_sensor, schedVars, now>>

\* async_track_time_change: one more listener of hass; the handle returned
\* is its position.
TrackTimeChange(ls, kind) == Append(ls, [kind |-> kind, cancelled |-> 0])

\* A cancel handle called: the listener it stands for is removed (again, if
\* it was called before).
CallHandle(ls, handle) == [ls EXCEPT ![Val(handle)].cancelled = @ + 1]

\* hass still fires a listener of this kind.
Active(kind) ==
    \E k \in 1..Len(listeners) :
        listeners[k].kind = kind /\ listeners[k].cancelled = 0

\* The body of start_background_schedulers: _schedule_hourly_update, then
\* _schedule_daily_refit; each stores the handle of its new listener.
ScheduleBoth ==
    /\ Len(listeners) + 2 <= MaxListeners
    /\ listeners' = TrackTimeChange(TrackTimeChange(listeners, "hourly"), "daily")
    /\ cancel_hourly_update' = Some(Len(listeners) + 1)
    /\ cancel_daily_refit' = Some(Len(listeners) + 2)
    /\ log' = {"schedulers_started"}
    /\ UNCHANGED <<unitVars, price_sensor, modelVars, data, now, tasks>>

\* start_background_schedulers, called once after the first refresh is
\* complete.
StartBackgroundSchedulers ==
    /\ tasks["first_refresh"].pc = "done"
    /\ listeners = <<>>
    /\ ScheduleBoth

\* start_background_schedulers, called at any time.
RestartBackgroundSchedulers == ScheduleBoth

\* async_shutdown: each handle that is set is called; the handles stay.
AsyncShutdown ==
    /\ \A h \in {cancel_hourly_update, cancel_daily_refit} :
           h # <<>> => listeners[Val(h)].cancelled < MaxCancels
    /\ listeners' =
           LET hourly == IF cancel_hourly_update # <<>>
                         THEN CallHandle(listeners, cancel_hourly_update)
                         ELSE listeners
           IN  IF cancel_daily_refit # <<>>
               THEN CallHandle(hourly, cancel_daily_refit) ELSE hourly
    /\ log' = {"shutdown"}
    /\ UNCHANGED <<unitVars, price_sensor, modelVars, data, now, tasks,
                   cancel_hourly_update, cancel_daily_refit>>

\* _handle_hourly_update: the hourly listener fires.
HandleHourlyUpdate ==
    /\ Active("hourly")
    /\ tasks["hourly"].pc = "idle"
    /\ Commit("hourly", {StartRefresh(Ctx("hourly"))})
    /\ UNCHANGED <<unitVars, price_sensor, schedVars, now>>

\* _handle_daily_refit: the daily listener fires; the refit, then a refresh.
HandleDailyRefit ==
    /\ Active("daily")
    /\ tasks["daily"].pc = "idle"
    /\ Commit("daily",
              {IF price_sensor = <<>>
               THEN StartRefresh(Ctx("daily"))
               ELSE EnterFit(Ctx("daily"), "daily")})
    /\ UNCHANGED <<unitVars, price_sensor, schedVars, now>>

\* The fetch handler t awaits is answered with one of responses.
FetchAnswered(t, responses) ==
    /\ tasks[t].pc = "fetch"
    /\ Commit(t, {OnFetch(Ctx(t), t, response) : response \in responses})
    /\ UNCHANGED <<unitVars, price_sensor, schedVars, now>>

\* The provider answers the fetch handler t awaits.
FetchReturn(t) == FetchAnswered(t, Responses(FetchOrder[tasks[t].i]))

\* The recorder answers the history query handler t awaits.
HistoryReturn(t) ==
    /\ tasks[t].pc = "history"
    /\ Commit(t, {OnHistory(Ctx(t), t, answer) :
                    answer \in HistoryAnswers(tasks[t].i)})
    /\ UNCHANGED <<unitVars, price_sensor, schedVars, now>>

Next ==
    \/ Tick
    \/ AsyncConfigEntryFirstRefresh
    \/ StartBackgroundSchedulers
    \/ HandleHourlyUpdate
    \/ HandleDailyRefit
    \/ \E t \in Handlers : FetchReturn(t)
    \/ \E t \in Handlers : HistoryReturn(t)

Spec == Init /\ [][Next]_vars

\* The provider answers the fetch of the first refresh, from the wider
\* choice of answers.
WideFetchReturn ==
    FetchAnswered("first_refresh",
                  WideResponses(FetchOrder[tasks["first_refresh"].i]))

\* The setup alone, its first refresh and its initial fit, against the
\* wider choice of provider answers.
RefreshNext ==
    \/ AsyncConfigEntryFirstRefresh
    \/ WideFetchReturn
    \/ HistoryReturn("first_refresh")

RefreshSpec == Init /\ [][RefreshNext]_vars

\* The answers of WideResponses, and for wind_onshore one more: a single
\* record whose validfrom is a JSON object.
ObjectResponses(key) ==
    WideResponses(key)
        \cup (IF key = "wind_onshore"
              THEN {HttpResponse(200, <<ProviderRecord(2000000, Unhashable)>>)}
              ELSE {})

\* The provider answers the fetch of the first refresh, from these answers.
ObjectFetchReturn ==
    FetchAnswered("first_refresh",
                  ObjectResponses(FetchOrder[tasks["first_refresh"].i]))

\* The setup alone against provider answers that make the computation of
\* the price forecast raise.
ObjectNext ==
    \/ AsyncConfigEntryFirstRefresh
    \/ ObjectFetchReturn
    \/ HistoryReturn("first_refresh")

ObjectSpec == Init /\ [][ObjectNext]_vars

\* The listeners of a coordinator whose start_background_schedulers and
\* async_shutdown are called in any order, while time passes and the
\* listeners fire; the provider and the recorder do not answer.
SchedulerNext ==
    \/ Tick
    \/ RestartBackgroundSchedulers
    \/ AsyncShutdown
    \/ HandleHourlyUpdate
    \/ HandleDailyRefit

SchedulerSpec == Init /\ [][SchedulerNext]_vars

\* ------------------------------------------------- _fit_lr_model, directly

\* The state histories the recorder may hold for the entity of query j, a
\* wider choice: streams that cover every consumption hour, streams that
\* miss some of them, streams with hours the consumption stream lacks, and
\* no states at all.
WideHistories(j) ==
    CASE j = 1 -> {<<State(0, "3"), State(30, "5"), State(60, "5"), State(120, "6"),
                     State(180, "4"), State(240, "4")>>,
                   <<State(0, "4"), State(60, "5"), State(120, "6")>>,
                   <<State(60, "5"), State(240, "4"), State(250, "unknown")>>}
      [] j = 2 -> {<<State(5, "1"), State(65, "1"), State(70, "unknown"),
                     State(125, "1"), State(185, "1"), State(245, "1")>>,
                   <<State(0, "1"), State(60, "2"), State(300, "1")>>,
                   <<State(180, "1")>>}
      [] j = 3 -> {<<State(0, "1"), State(60, "1"), State(120, "1"),
                     State(180, "1"), State(240, "1")>>,
                   <<State(0, "1"), State(60, "2"), State(120, "1"), State(180, "1")>>,
                   <<>>}
      [] j = 4 -> {<<State(0, "1"), State(60, "1"), State(120, "1"),
                     State(180, "1"), State(240, "1")>>,
                   <<State(0, "2"), State(300, "1")>>,
                   <<>>}
      [] j = 5 -> {<<State(0, "2"), State(60, "4"), State(120, "6")>>,
                   <<State(0, "1"), State(60, "3"), State(120, "3"), State(300, "2")>>,
                   <<State(0, "2"), State(180, "2"), State(240, "3")>>,
                   <<State(240, "2")>>,
                   <<>>}

\* historical_records after the five queries, for every such history.
WideRecorderResults ==
    {EntityIds[1] :> h1 @@ EntityIds[2] :> h2 @@ EntityIds[3] :> h3
        @@ EntityIds[4] :> h4 @@ EntityIds[5] :> h5 :
        h1 \in WideHistories(1), h2 \in WideHistories(2),
        h3 \in WideHistories(3), h4 \in WideHistories(4),
        h5 \in WideHistories(5)}

\* The TIP the return below MIN_DATAPOINTS logs: the stream it names, or
\* "history" for the tip that names none.
ThresholdTip(ts) ==
    IF 10 * ts.missing_wind_on > 3 * ts.total_consumption_hours
    THEN "wind_onshore"
    ELSE IF 10 * ts.missing_wind_off > 3 * ts.total_consumption_hours
    THEN "wind_offshore"
    ELSE IF 10 * ts.missing_price > 3 * ts.total_consumption_hours
    THEN "price"
    ELSE "history"

\* What a run of _fit_lr_model leaves behind: the model state out.m, the
\* record it logged, and its locals: the histories it read, the training
\* set it built of them and the tip it logged, if any.
FitLrModelEnds(historical_records, ts, out) ==
    /\ lr_model' = out.m.lr_model
    /\ last_fit_time' = out.m.last_fit_time
    /\ model_r2_score' = out.m.model_r2_score
    /\ model_datapoints' = out.m.model_datapoints
    /\ log' = {out.logged}
    /\ call' = [op |-> "_fit_lr_model", n |-> call.n + 1,
                historical_records |-> historical_records,
                training |-> Some(ts),
                tip |-> IF Len(ts.X_list) < MIN_DATAPOINTS
                        THEN Some(ThresholdTip(ts)) ELSE <<>>]
    /\ UNCHANGED <<flow, price_sensor, data, schedVars, now, tasks, regression>>

\* _fit_lr_model without a price sensor: it returns at once.
FitLrModelNoPriceSensor ==
    /\ price_sensor = <<>>
    /\ call.n < MaxRefits
    /\ call' = [op |-> "_fit_lr_model", n |-> call.n + 1,
                historical_records |-> EmptyDict,
                training |-> <<>>, tip |-> <<>>]
    /\ log' = {}
    /\ UNCHANGED <<flow, price_sensor, modelVars, data, schedVars, now, tasks,
                   regression>>

\* _fit_lr_model run from its start to its end, the recorder answering its
\* five queries with historical_records.
FitLrModel(historical_records) ==
    /\ price_sensor # <<>>
    /\ call.n < MaxRefits
    /\ \A t \in Handlers : tasks[t].pc = "idle"
    /\ FitLrModelEnds(historical_records,
                      BuildTrainingSet(historical_records),
                      FitOutcome(ModelState(lr_model, last_fit_time,
                                            model_r2_score, model_datapoints),
                                 TrainOn(historical_records), now))

\* The refits of a coordinator against the wider choice of histories.
TrainingNext ==
    \/ FitLrModelNoPriceSensor
    \/ \E hr \in WideRecorderResults : FitLrModel(hr)

TrainingSpec == Init /\ [][TrainingNext]_vars

\* ------------------------------------------------------------------ sensor

\* The keys of SENSOR_TYPES: one NEDEnergySensor for each.
SensorTypes ==
    {"consumption", "solar", "wind_onshore", "wind_offshore",
     "total_renewable", "coverage_percentage", "feed_in_tariff"}

\* The UTC offsets, in hours, the clock of the host may have.  A timestamp
\* of a series is the reading of the provider's string, which carries its
\* own offset, +00:00.
LocalOffsets == {0, 1}

\* datetime.now(): the naive local time of the host at an instant (UTC).
DatetimeNow(instant, local_offset) == instant + local_offset

\* datetime.fromisoformat(ts_clean) made naive by replace(tzinfo=None): the
\* reading of the string without its offset.
RecordTime(timestamp) == timestamp

\* The loop of native_value from record k on: the last record found that
\* is not after `at`, stopping at the first that is; a record without
\* timestamp is passed over.
RECURSIVE ScanRecords(_, _, _, _)
ScanRecords(sensor_data, k, at, current_record) ==
    IF k > Len(sensor_data) THEN current_record
    ELSE IF sensor_data[k].timestamp = 0
    THEN ScanRecords(sensor_data, k + 1, at, current_record)
    ELSE IF RecordTime(sensor_data[k].timestamp) <= at
    THEN ScanRecords(sensor_data, k + 1, at, Some(sensor_data[k]))
    ELSE current_record

\* The end of native_value: the first record if none was found, and its
\* capacity rounded to one decimal (every capacity the coordinator writes
\* is a float).
CurrentValue(sensor_data, current_record) ==
    Some(Round((IF current_record = <<>> THEN sensor_data[1]
                ELSE Val(current_record)).capacity, 10))

\* NEDEnergySensor.native_value of the sensor of `key`, or None.
NativeValue(d, key, at) ==
    IF key \notin DOMAIN d \/ d[key] = <<>> THEN <<>>
    ELSE CurrentValue(d[key], ScanRecords(d[key], 1, at, <<>>))

\* The forecast list of extra_state_attributes.
ForecastList(records) ==
    [k \in 1..Len(records) |->
        [datetime |-> records[k].timestamp, value |-> records[k].capacity]]

\* NEDEnergySensor.extra_state_attributes of the sensor of `key`: the
\* forecast attribute, if set, and the first and last forecast times.
ExtraStateAttributes(d, key) ==
    IF key \notin DOMAIN d \/ d[key] = <<>> THEN EmptyDict
    ELSE IF key = "model_r2_score" THEN EmptyDict
    ELSE Put(Put(IF Len(d[key]) > 1
                 THEN Put(Put(EmptyDict, "forecast", ForecastList(Tail(d[key]))),
                          "forecast_points", Len(d[key]) - 1)
                 ELSE EmptyDict,
                 "first_forecast_time", d[key][1].timestamp),
             "last_forecast_time", d[key][Len(d[key])].timestamp)

\* The state of the sensor of `key` is read at an instant, on a host with
\* the given offset: its native_value and its extra_state_attributes.
ReadSensor(key, instant, local_offset) ==
    /\ data # <<>>
    /\ call.n < MaxReads
    /\ call' = [op |-> "read_sensor", n |-> call.n + 1, key |-> key,
                instant |-> instant, local_offset |-> local_offset,
                native_value |->
                    NativeValue(Val(data), key,
                                DatetimeNow(instant, local_offset)),
                extra_state_attributes |->
                    ExtraStateAttributes(Val(data), key)]
    /\ log' = {}
    /\ UNCHANGED <<flow, price_sensor, modelVars, data, schedVars, now, tasks,
                   regression>>

\* The setup against the wider choice of provider answers, and the sensors
\* read once the first data map is published.
SensorNext ==
    \/ AsyncConfigEntryFirstRefresh
    \/ WideFetchReturn
    \/ HistoryReturn("first_refresh")
    \/ \E key \in SensorTypes, instant \in 0..MaxHour,
          local_offset \in LocalOffsets :
           ReadSensor(key, instant, local_offset)

SensorSpec == Init /\ [][SensorNext]_vars

\* ----------------------------------------- LinearRegression, called directly

\* 2^k
RECURSIVE Pow2(_)
Pow2(k) == IF k = 0 THEN 1 ELSE 2 * Pow2(k - 1)

\* a / d * 2^e with a / d brought into [2^(MantissaBits-1), 2^MantissaBits).
RECURSIVE Normalized(_, _, _)
Normalized(a, d, e) ==
    IF a >= d * Pow2(MantissaBits) THEN Normalized(a, 2 * d, e + 1)
    ELSE IF a < d * Pow2(MantissaBits - 1) THEN Normalized(2 * a, d, e - 1)
    ELSE [a |-> a, d |-> d, e |-> e]

\* a / d rounded to the nearest integer, a tie to the even one.
RoundHalfEven(a, d) ==
    IF 2 * (a % d) > d \/ (2 * (a % d) = d /\ (a \div d) % 2 = 1)
    THEN (a \div d) + 1 ELSE a \div d

\* m * 2^e
Scaled(m, e) == IF e >= 0 THEN Rat(m * Pow2(e), 1) ELSE Rat(m, Pow2(-e))

\* The float of sign s nearest to the normalized magnitude nz.
FlNormalized(s, nz) == Scaled(s * RoundHalfEven(nz.a, nz.d), nz.e)

\* The float nearest to x: binary floating point, round to nearest, ties to
\* even, with a mantissa of MantissaBits bits in place of the 53 of a
\* Python float.
Fl(x) ==
    IF x[1] = 0 THEN x
    ELSE FlNormalized(IF x[1] < 0 THEN -1 ELSE 1,
                      Normalized(Abs(x[1]), x[2], 0))

\* The float operations +, -, *, /.
FAdd(a, b) == Fl(RAdd(a, b))
FSub(a, b) == Fl(RSub(a, b))
FMul(a, b) == Fl(RMul(a, b))
FDiv(a, b) == Fl(RDiv(a, b))

\* acc += term, for each of terms in order.
RECURSIVE Accumulate(_, _, _)
Accumulate(terms, k, acc) ==
    IF k > Len(terms) THEN acc
    ELSE Accumulate(terms, k + 1, FAdd(acc, terms[k]))

\* _matrix_multiply_transpose in float arithmetic.
FloatMatrixMultiplyTranspose(A, B) ==
    List([i \in 1..Len(A[1]) |->
            List([j \in 1..Len(B[1]) |->
                    Accumulate(List([k \in 1..Len(A) |-> FMul(A[k][i], B[k][j])]),
                               1, RInt(0))])])

\* _matrix_vector_multiply_transpose in float arithmetic.
FloatMatrixVectorMultiplyTranspose(A, v) ==
    List([i \in 1..Len(A[1]) |->
            Accumulate(List([j \in 1..Len(A) |-> FMul(A[j][i], v[j])]),
                       1, RInt(0))])

\* _matrix_vector_multiply in float arithmetic.
FloatMatrixVectorMultiply(A, v) ==
    List([i \in 1..Len(A) |->
            Accumulate(List([j \in 1..Len(v) |-> FMul(A[i][j], v[j])]),
                       1, RInt(0))])

\* augmented[i][j] /= pivot
FloatPivotRow(swapped, i) ==
    List([j \in 1..Len(swapped[i]) |-> FDiv(swapped[i][j], swapped[i][i])])

\* augmented[k][j] -= factor * augmented[i][j]
FloatEliminate(swapped, i, prow) ==
    List([r \in 1..Len(swapped) |->
            IF r = i THEN prow
            ELSE List([j \in 1..Len(prow) |->
                         FSub(swapped[r][j], FMul(swapped[r][i], prow[j]))])])

\* The Gauss-Jordan elimination of _matrix_inverse in float arithmetic.
RECURSIVE FloatGaussJordan(_, _)
RECURSIVE FloatGaussJordanSwapped(_, _)
FloatGaussJordanSwapped(swapped, i) ==
    IF PivotTooSmall(swapped[i][i])
    THEN [singular |-> TRUE, aug |-> swapped]
    ELSE FloatGaussJordan(FloatEliminate(swapped, i, FloatPivotRow(swapped, i)),
                          i + 1)

FloatGaussJordan(aug, i) ==
    IF i > Len(aug) THEN [singular |-> FALSE, aug |-> aug]
    ELSE FloatGaussJordanSwapped(SwapRows(aug, i, MaxRow(aug, i, i + 1, i)), i)

\* _matrix_inverse in float arithmetic.
FloatMatrixInverse(matrix) ==
    RightHalf(FloatGaussJordan(Augmented(matrix), 1), Len(matrix))

\* The end of fit: the coefficients assigned, or the ValueError of the
\* singular matrix.
FloatFitSolved(s1, inv, c) ==
    IF inv.singular THEN [error |-> "Singular", self |-> s1]
    ELSE [error |-> "none",
          self |-> [s1 EXCEPT !.intercept = c[1],
                              !.coefficients = Tail(c),
                              !.is_fitted = TRUE]]

\* fit from the inversion on.
FloatFitInverted(s1, inv, Xty) ==
    FloatFitSolved(s1, inv, FloatMatrixVectorMultiply(inv.inverse, Xty))

\* fit from the normal equations on.
FloatFitNormal(s1, X_with_intercept, y) ==
    FloatFitInverted(s1,
                     FloatMatrixInverse(
                         FloatMatrixMultiplyTranspose(X_with_intercept,
                                                      X_with_intercept)),
                     FloatMatrixVectorMultiplyTranspose(X_with_intercept, y))

\* fit pairing the rows with the targets as zip does, up to the shorter of
\* the two, in place of comparing their lengths.
FloatFitZipped(self, X, y) ==
    IF Len(X) = 0 \/ Len(y) = 0 THEN [error |-> "Empty", self |-> self]
    ELSE FloatFitNormal([self EXCEPT !.n_features = Len(X[1])],
                        List([r \in 1..Len(X) \cap 1..Len(y) |-> <<RInt(1)>> \o X[r]]),
                        List([r \in 1..Len(X) \cap 1..Len(y) |-> y[r]]))

\* LinearRegression.fit in float arithmetic, on rows of one width:
\* [error, self]; the errors are the three ValueErrors of fit.
FloatFit(self, X, y) ==
    IF Len(X) # Len(y) THEN [error |-> "LengthMismatch", self |-> self]
    ELSE IF Len(X) = 0 THEN [error |-> "Empty", self |-> self]
    ELSE FloatFitNormal([self EXCEPT !.n_features = Len(X[1])],
                        List([r \in 1..Len(X) |-> <<RInt(1)>> \o X[r]]), y)

\* prediction += self.coefficients[i] * value, for each value of the row.
RECURSIVE FloatPredictRow(_, _, _, _)
FloatPredictRow(self, row, i, prediction) ==
    IF i > Len(row) THEN prediction
    ELSE FloatPredictRow(self, row, i + 1,
                         FAdd(prediction, FMul(self.coefficients[i], row[i])))

\* The loop of predict from row k on: the predictions, or the exception of
\* the first row that raises: the ValueError of a row of another width, or
\* the IndexError of a row wider than self.coefficients.
RECURSIVE FloatPredictRows(_, _, _, _)
FloatPredictRows(self, X, k, predictions) ==
    IF k > Len(X) THEN [error |-> "none", value |-> predictions]
    ELSE IF Len(X[k]) # self.n_features
    THEN [error |-> "FeatureMismatch", value |-> <<>>]
    ELSE IF Len(X[k]) > Len(self.coefficients)
    THEN [error |-> "IndexError", value |-> <<>>]
    ELSE FloatPredictRows(self, X, k + 1,
                          Append(predictions,
                                 FloatPredictRow(self, X[k], 1, self.intercept)))

\* LinearRegression.predict in float arithmetic: [error, value].
FloatPredict(self, X) ==
    IF ~self.is_fitted THEN [error |-> "NotFitted", value |-> <<>>]
    ELSE FloatPredictRows(self, X, 1, <<>>)

\* sum((y_i - y_mean) ** 2 for y_i in y)
SsTot(y, y_mean) ==
    Accumulate(List([k \in 1..Len(y) |->
                       FMul(FSub(y[k], y_mean), FSub(y[k], y_mean))]),
               1, RInt(0))

\* sum((y[i] - predictions[i]) ** 2 for i in range(len(y)))
SsRes(y, predictions) ==
    Accumulate(List([k \in 1..Len(y) |->
                       FMul(FSub(y[k], predictions[k]),
                            FSub(y[k], predictions[k]))]),
               1, RInt(0))

\* The end of score: 0.0 if ss_tot == 0, else 1.0 - ss_res / ss_tot.
RSquared(ss_tot, ss_res) ==
    IF ss_tot = RInt(0) THEN RInt(0)
    ELSE FSub(RInt(1), FDiv(ss_res, ss_tot))

\* score from its predictions on: ZeroDivisionError for an empty y,
\* IndexError for a y longer than the predictions.
FloatScored(y, predicted) ==
    IF predicted.error # "none" THEN predicted
    ELSE IF Len(y) = 0 THEN [error |-> "ZeroDivisionError", value |-> <<>>]
    ELSE IF Len(y) > Len(predicted.value)
    THEN [error |-> "IndexError", value |-> <<>>]
    ELSE [error |-> "none",
          value |-> <<RSquared(SsTot(y, FDiv(Accumulate(y, 1, RInt(0)),
                                             RInt(Len(y)))),
                               SsRes(y, predicted.value))>>]

\* LinearRegression.score in float arithmetic: [error, value].
FloatScore(self, X, y) == FloatScored(y, FloatPredict(self, X))

\* The feature matrices and the target vectors of the direct calls: floats
\* of at most MantissaBits bits; rows of full rank, a single sample, equal
\* rows, rows of two features, rows of unequal width, and none.
FeatureMatrices ==
    {<<>>,
     <<<<RInt(1)>>>>,
     <<<<RInt(1)>>, <<RInt(2)>>>>,
     <<<<RInt(1)>>, <<RInt(2)>>, <<RInt(4)>>>>,
     <<<<RInt(3)>>, <<RInt(3)>>, <<RInt(3)>>>>,
     <<<<Rat(13, 2)>>, <<Rat(13, 2)>>>>,
     <<<<RInt(1), RInt(2)>>>>}

RaggedMatrices ==
    {<<<<RInt(1)>>, <<RInt(1), RInt(2)>>>>,
     <<<<RInt(1), RInt(2)>>, <<RInt(2)>>>>}

TargetVectors ==
    {<<>>,
     <<RInt(1)>>,
     <<RInt(1), RInt(2)>>,
     <<RInt(1), RInt(2), RInt(3)>>,
     <<RInt(3), RInt(3), RInt(3)>>,
     <<RInt(7), RInt(7), RInt(7)>>}

\* regression.fit(X, y) is called.
FitCalled(X, y) ==
    /\ call.n < MaxCalls
    /\ regression' = FloatFit(regression, X, y).self
    /\ call' = [op |-> "fit", n |-> call.n + 1, self |-> regression,
                X |-> X, y |-> y,
                error |-> FloatFit(regression, X, y).error, value |-> <<>>]
    /\ UNCHANGED <<flow, price_sensor, modelVars, data, schedVars, now, tasks, log>>

\* regression.predict(X) is called.
PredictCalled(X) ==
    /\ call.n < MaxCalls
    /\ call' = [op |-> "predict", n |-> call.n + 1, self |-> regression,
                X |-> X, y |-> <<>>,
                error |-> FloatPredict(regression, X).error,
                value |-> FloatPredict(regression, X).value]
    /\ UNCHANGED <<flow, price_sensor, modelVars, data, schedVars, now, tasks, log,
                   regression>>

\* regression.score(X, y) is called.
ScoreCalled(X, y) ==
    /\ call.n < MaxCalls
    /\ call' = [op |-> "score", n |-> call.n + 1, self |-> regression,
                X |-> X, y |-> y,
                error |-> FloatScore(regression, X, y).error,
                value |-> FloatScore(regression, X, y).value]
    /\ UNCHANGED <<flow, price_sensor, modelVars, data, schedVars, now, tasks, log,
                   regression>>

\* A LinearRegression on which fit, predict and score are called in any
\* order.
RegressionNext ==
    \/ \E X \in FeatureMatrices, y \in TargetVectors : FitCalled(X, y)
    \/ \E X \in FeatureMatrices \cup RaggedMatrices : PredictCalled(X)
    \/ \E X \in FeatureMatrices, y \in TargetVectors : ScoreCalled(X, y)

RegressionSpec == Init /\ [][RegressionNext]_vars

\* ------------------------------------------- _handle_daily_refit, observed

\* What a run of _handle_daily_refit has done so far: the stage it is in
\* ("refit", "refresh" or "ended"), the model its own await of
\* _fit_lr_model left in lr_model if that fit succeeded and the time of
\* that fit, and the map its async_refresh published, if any.
DailyRun(stage, fitted, fit_time, published) ==
    [op |-> "_handle_daily_refit", n |-> 0, stage |-> stage,
     fitted |-> fitted, fit_time |-> fit_time, published |-> published]

\* The daily listener fires (HandleDailyRefit), the run observed from here.
DailyRefitFires ==
    /\ Active("daily")
    /\ tasks["daily"].pc = "idle"
    /\ Commit("daily",
              {IF price_sensor = <<>>
               THEN StartRefresh(Ctx("daily"))
               ELSE EnterFit(Ctx("daily"), "daily")})
    /\ call' = DailyRun(IF price_sensor = <<>> THEN "refresh" ELSE "refit",
                        <<>>, <<>>, <<>>)
    /\ UNCHANGED <<flow, regression, price_sensor, schedVars, now>>

\* The run after a step of the daily handler: the step that returns from
\* `await self._fit_lr_model()` enters the refresh, the step that leaves
\* async_refresh ends the run.
DailyObserved ==
    call' =
        IF call.op # "_handle_daily_refit" THEN call
        ELSE IF tasks["daily"].ctx = "daily" /\ tasks'["daily"].pc = "fetch"
        THEN DailyRun("refresh",
                      IF "fit_ok" \in log' THEN lr_model' ELSE <<>>,
                      IF "fit_ok" \in log' THEN last_fit_time' ELSE <<>>, <<>>)
        ELSE IF tasks'["daily"].pc = "idle"
        THEN DailyRun("ended", call.fitted, call.fit_time,
                      IF "update_ok" \in log' THEN data' ELSE <<>>)
        ELSE call

\* The provider answers the fetch the daily handler awaits.
DailyFetchReturn ==
    /\ tasks["daily"].pc = "fetch"
    /\ Commit("daily", {OnFetch(Ctx("daily"), "daily", response) :
                          response \in Responses(FetchOrder[tasks["daily"].i])})
    /\ DailyObserved
    /\ UNCHANGED <<flow, regression, price_sensor, schedVars, now>>

\* The recorder answers the history query the daily handler awaits.
DailyHistoryReturn ==
    /\ tasks["daily"].pc = "history"
    /\ Commit("daily", {OnHistory(Ctx("daily"), "daily", answer) :
                          answer \in HistoryAnswers(tasks["daily"].i)})
    /\ DailyObserved
    /\ UNCHANGED <<flow, regression, price_sensor, schedVars, now>>

\* The coordinator with the runs of its daily handler observed.
DailyNext ==
    \/ Tick
    \/ AsyncConfigEntryFirstRefresh
    \/ StartBackgroundSchedulers
    \/ HandleHourlyUpdate
    \/ DailyRefitFires
    \/ \E t \in Handlers \ {"daily"} : FetchReturn(t)
    \/ \E t \in Handlers \ {"daily"} : HistoryReturn(t)
    \/ DailyFetchReturn
    \/ DailyHistoryReturn

DailySpec == Init /\ [][DailyNext]_vars

\* ------------------------------------ _calculate_epex_forecast_lr, directly

\* The models put in place of lr_model for a direct call: a fitted model of
\* one feature, a LinearRegression that was never fitted, and one fitted on
\* two features; predict([[residual]]) raises ValueError on the last two.
InjectedModels ==
    {[coefficients |-> <<RInt(2)>>, intercept |-> RInt(1), n_features |-> 1,
      is_fitted |-> TRUE],
     NewLinearRegression,
     [coefficients |-> <<RInt(1), RInt(1)>>, intercept |-> RInt(0),
      n_features |-> 2, is_fitted |-> TRUE]}

\* The map _async_update_data hands to _calculate_epex_forecast_lr: the
\* fetched series and the two calculated ones.
BeforeForecast(d) ==
    Dict([key \in DOMAIN d \ {"forecast_epex_price", "model_r2_score"} |-> d[key]])

\* _calculate_epex_forecast_lr(d) with `model` in lr_model, fitted just now:
\* the map it leaves, and whether its except clause was entered.
CalculateEpexForecastLr(model) ==
    /\ price_sensor # <<>>
    /\ data # <<>>
    /\ call.n < MaxForecasts
    /\ \A t \in Handlers : tasks[t].pc \in {"idle", "done"}
    /\ lr_model' = Some(model)
    /\ last_fit_time' = Some(now)
    /\ call' = [op |-> "_calculate_epex_forecast_lr", n |-> call.n + 1,
                d |-> BeforeForecast(Val(data)), model |-> model,
                excepted |-> /\ AllFour(BeforeForecast(Val(data)))
                             /\ LrForecast(BeforeForecast(Val(data)), model).raised,
                out |-> EpexForecastAfterFit(BeforeForecast(Val(data)),
                                             Some(model))]
    /\ log' = {}
    /\ UNCHANGED <<flow, price_sensor, model_r2_score, model_datapoints, data,
                   schedVars, now, tasks, regression>>

\* The setup against the wider choice of provider answers, its forecast
\* then computed once more with a model put in place.
ForecastNext ==
    \/ AsyncConfigEntryFirstRefresh
    \/ ObjectFetchReturn
    \/ HistoryReturn("first_refresh")
    \/ \E model \in InjectedModels : CalculateEpexForecastLr(model)

ForecastSpec == Init /\ [][ForecastNext]_vars

\* -------------------------------------------------------------- config_flow

\* What a user may submit in the two forms, and how the provider may answer
\* the test request of validate_api_key.
ApiKeys == {"key-a", "key-b"}
HorizonInputs == {<<>>, Some(1), Some(48), Some(168)}
SensorInputs == {PriceSensorId, "sensor.other_price", "sensor.removed_price"}
ValidationResponses == {"200", "401", "raised"}

\* validate_api_key: True for an answer of status 200 only; an exception of
\* the request is logged and gives False.
ValidateApiKey(response) == response = "200"

\* The last call of a step, with what it was given: the answer to the test
\* request, the sensor submitted and the state the store had for it.
StepCall(step, response, sensor, state) ==
    [step |-> step, response |-> response, sensor |-> sensor, state |-> state]

\* self.async_show_form(step_id=..., errors=errors)
AsyncShowForm(f, step_id, errors) ==
    [f EXCEPT !.step = step_id, !.errors = errors]

\* async_step_user with user input: an invalid key shows the form again with
\* errors["base"] = "invalid_auth"; a valid one is stored with the horizon
\* (144 when the input has none) and the flow goes on to
\* async_step_price_sensor, which shows its form.  Nothing inside the try
\* raises (validate_api_key catches its own exceptions), so the branch of
\* errors["base"] = "unknown" is never taken.
AsyncStepUser(f, user_input, response) ==
    IF ~ValidateApiKey(response)
    THEN AsyncShowForm(f, "user", Put(EmptyDict, "base", "invalid_auth"))
    ELSE AsyncShowForm([f EXCEPT !.api_key = Some(user_input.api_key),
                                 !.forecast_hours =
                                     IF user_input.forecast_hours = <<>>
                                     THEN Some(144)
                                     ELSE user_input.forecast_hours],
                       "price_sensor", EmptyDict)

\* self.async_create_entry(title=..., data={...}): the three values go into
\* the data of the entry; its options are empty.
AsyncCreateEntry(f, sensor) ==
    [f EXCEPT !.step = "create_entry",
              !.errors = EmptyDict,
              !.entry = Some([data |-> Put(Put(Put(EmptyDict, "api_key",
                                                   Val(f.api_key)),
                                               "forecast_hours",
                                               Val(f.forecast_hours)),
                                           "price_sensor", sensor),
                              options |-> EmptyDict])]

\* The mutant of AsyncStepPriceSensor that does not look the sensor up.
AsyncStepPriceSensorUnchecked(f, sensor, state) ==
    AsyncCreateEntry(f, sensor)

\* async_step_price_sensor with user input: state is
\* self.hass.states.get(price_sensor), for the sensor submitted.  No state
\* shows the form again with errors["base"] = "sensor_not_found"; otherwise
\* the entry is created.
AsyncStepPriceSensor(f, sensor, state) ==
    IF state = <<>>
    THEN AsyncShowForm(f, "price_sensor",
                       Put(EmptyDict, "base", "sensor_not_found"))
    ELSE AsyncCreateEntry(f, sensor)

\* NEDEnergyDataUpdateCoordinator.__init__: the key from entry.data, the
\* horizon and the price sensor from entry.options, with 48 and None for a
\* key that is not there.
CoordinatorInit(entry) ==
    [api_key |-> entry.data["api_key"],
     forecast_hours |->
         IF "forecast_hours" \in DOMAIN entry.options
         THEN entry.options["forecast_hours"] ELSE 48,
     price_sensor |->
         IF "price_sensor" \in DOMAIN entry.options
         THEN Some(entry.options["price_sensor"]) ELSE <<>>]

\* The flow is started: async_step_user without user input shows the first
\* form.
FlowStarted ==
    /\ flow.step = "none"
    /\ flow' = [AsyncShowForm(flow, "user", EmptyDict) EXCEPT
                    !.last = StepCall("user", "none", <<>>, <<>>)]
    /\ UNCHANGED <<regression, call, price_sensor, modelVars, data, schedVars,
                   now, tasks, log>>

\* The form of step user is submitted.
UserSubmitted ==
    /\ flow.step = "user"
    /\ \E api_key \in ApiKeys, forecast_hours \in HorizonInputs,
          response \in ValidationResponses :
           flow' = [AsyncStepUser(flow, [api_key |-> api_key,
                                         forecast_hours |-> forecast_hours],
                                  response) EXCEPT
                        !.last = StepCall("user", response, <<>>, <<>>)]
    /\ UNCHANGED <<regression, call, price_sensor, modelVars, data, schedVars,
                   now, tasks, log>>

\* The form of step price_sensor is submitted; the state store has a state
\* for the selected entity, or has none.
PriceSensorSubmitted ==
    /\ flow.step = "price_sensor"
    /\ \E sensor \in SensorInputs, state \in {<<>>, Some("0.08")} :
           flow' = [AsyncStepPriceSensor(flow, sensor, state) EXCEPT
                        !.last = StepCall("price_sensor", "none", Some(sensor),
                                          state)]
    /\ UNCHANGED <<regression, call, price_sensor, modelVars, data, schedVars,
                   now, tasks, log>>

\* The coordinator is constructed from the entry the flow created.
CoordinatorConstructed ==
    /\ flow.entry # <<>>
    /\ flow.coordinator = <<>>
    /\ flow' = [flow EXCEPT !.coordinator = Some(CoordinatorInit(Val(flow.entry)))]
    /\ UNCHANGED <<regression, call, price_sensor, modelVars, data, schedVars,
                   now, tasks, log>>

FlowNext ==
    \/ FlowStarted
    \/ UserSubmitted
    \/ PriceSensorSubmitted
    \/ CoordinatorConstructed

FlowSpec == Init /\ [][FlowNext]_vars

\* ------------------------------------------------------------------ claims

\* The step of handler t: t ran from one suspension to the next.
Stepped(t) == tasks'[t] # tasks[t]

\* The step of handler t ends the fetches of a refresh cycle in which the
\* provider answered a fetch with 401 or 403.
FatalCycleEnds(t) ==
    /\ Stepped(t)
    /\ tasks[t].pc = "fetch"
    /\ tasks'[t].pc # "fetch"
    /\ (tasks[t].fatal \/ "http_fatal" \in log')

\* C1: a refit in which the fit fails, started or ended while a fitted
\* model exists, leaves lr_model, model_r2_score, model_datapoints and
\* last_fit_time as they were.
C1_FailedFitKeepsModel ==
    [][("fit_error" \in log' /\ lr_model # <<>>) => UNCHANGED modelVars]_vars

\* C2: a refresh cycle in which a fetch was answered 401 or 403 ends in an
\* update failure and returns no data map.
C2_FatalFetchFailsUpdate ==
    [][\A t \in Handlers :
          FatalCycleEnds(t) =>
              ("update_failed" \in log' /\ "update_ok" \notin log')]_vars

\* C3: after a refresh cycle in which a fetch was answered 401 or 403 the
\* published data map is the one published before.
C3_FatalCycleKeepsData ==
    [][\A t \in Handlers : FatalCycleEnds(t) => data' = data]_vars

\* The handlers that are inside _fit_lr_model.
Refitting == {t \in Handlers : tasks[t].pc = "history"}

\* C4: at most one execution of _fit_lr_model is in flight.
C4_OneRefitInFlight == Cardinality(Refitting) <= 1

\* The training sets _fit_lr_model can build from the recorder's answers.
TrainingSets == {BuildTrainingSet(hr) : hr \in RecorderResults}

\* What a successful fit on a training set yields: the model, its score on
\* the training set and the number of rows.
FitOf(T) ==
    LET fit == Fit(NewLinearRegression, T.X_list, T.y_list)
    IN  [raised |-> fit.raised, model |-> fit.self,
         r2 |-> IF fit.raised THEN RInt(0) ELSE Score(fit.self, T.X_list, T.y_list),
         datapoints |-> Len(T.X_list)]

SuccessfulFits ==
    {FitOf(T) : T \in {T \in TrainingSets : Len(T.X_list) >= MIN_DATAPOINTS
                                             /\ ~FitOf(T).raised}}

\* The model and its metrics are those of one successful fit.
OneFit(model, fit_time, r2, datapoints) ==
    /\ model # <<>> /\ fit_time # <<>> /\ r2 # <<>> /\ datapoints # <<>>
    /\ Val(model).is_fitted
    /\ \E f \in SuccessfulFits :
          /\ Val(model) = f.model
          /\ Val(r2) = f.r2
          /\ Val(datapoints) = f.datapoints

\* C5: in every state the model and its metrics are all absent, or all the
\* values of one successful fit.
C5_ModelAndMetricsPaired ==
    \/ /\ lr_model = <<>> /\ last_fit_time = <<>>
       /\ model_r2_score = <<>> /\ model_datapoints = <<>>
    \/ OneFit(lr_model, last_fit_time, model_r2_score, model_datapoints)

\* What a data map with all four source series should hold as fallback
\* forecast: 1.08 * residual + 0.45 at every timestamp the four series share.
FallbackSeries(d) ==
    LET tss == CompleteTimestamps(d)
    IN  [k \in 1..Len(tss) |->
            [capacity |-> Round(RAdd(RMul(Rat(108, 100), ResidualAt(d, tss[k])),
                                     Rat(45, 100)), 1000),
             timestamp |-> tss[k], percentage |-> <<>>]]

\* The same for the regression forecast of one model, clamped to -5..50.
RegressionSeries(d, model) ==
    LET tss == CompleteTimestamps(d)
    IN  [k \in 1..Len(tss) |->
            [capacity |-> Round(RMax(RInt(-5), RMin(RInt(50),
                              PredictRow(model, <<ResidualAt(d, tss[k])>>))), 1000),
             timestamp |-> tss[k], percentage |-> <<>>]]

HasForecast(d) == "forecast_epex_price" \in DOMAIN d

\* C6: the model and its metrics in use are at every moment those of one
\* successful fit, dated with the moment of that fit, and a data map
\* published with a price forecast holds either the forecast of that one
\* model together with its score, datapoints and fit time, or the fallback
\* forecast and no model score.
C6_PublishedWithOneModel ==
    [][/\ (modelVars' # modelVars /\ lr_model' # <<>>) => last_fit_time' = Some(now)
       /\ lr_model' # <<>> =>
              OneFit(lr_model', last_fit_time', model_r2_score', model_datapoints')
       /\ ("update_ok" \in log' /\ HasForecast(Val(data'))) =>
              LET d == Val(data')
              IN  IF lr_model' # <<>>
                  THEN /\ d["forecast_epex_price"] = RegressionSeries(d, Val(lr_model'))
                       /\ "model_r2_score" \in DOMAIN d
                       /\ d["model_r2_score"][1].capacity
                              = Round(Val(model_r2_score'), 10000)
                       /\ d["model_r2_score"][1].datapoints = model_datapoints'
                       /\ d["model_r2_score"][1].last_fit = last_fit_time'
                  ELSE /\ d["forecast_epex_price"] = FallbackSeries(d)
                       /\ "model_r2_score" \notin DOMAIN d]_vars

\* A data map with the forecast and the score of a model was published
\* while the refit of another handler was awaiting a history query.
C6_Witness ==
    /\ "update_ok" \in log
    /\ HasForecast(Val(data))
    /\ "model_r2_score" \in DOMAIN Val(data)
    /\ \E t \in Refitting : tasks[t].i > 1

\* Handler t ends the refit of its refresh below MIN_DATAPOINTS and no model
\* exists.
InsufficientRefresh(t) ==
    /\ Stepped(t)
    /\ tasks[t].pc = "history"
    /\ tasks[t].ctx = "refresh"
    /\ "fit_insufficient" \in log'
    /\ lr_model' = <<>>

\* C7 as stated: such a refresh publishes the fallback forecast.
C7_InsufficientFitAlwaysForecasts ==
    [][\A t \in Handlers :
          InsufficientRefresh(t) =>
              /\ "update_ok" \in log'
              /\ HasForecast(Val(data'))
              /\ Val(data')["forecast_epex_price"] = FallbackSeries(Val(data'))]_vars

\* C7, amended: such a refresh does not fail and publishes the four series
\* with the fallback forecast over the timestamps they share, or without a
\* forecast when they share none.
C7_InsufficientFitFallsBack ==
    [][\A t \in Handlers :
          InsufficientRefresh(t) =>
              /\ "update_ok" \in log'
              /\ AllFour(Val(data'))
              /\ IF CompleteTimestamps(Val(data')) # <<>>
                 THEN /\ HasForecast(Val(data'))
                      /\ Val(data')["forecast_epex_price"] = FallbackSeries(Val(data'))
                 ELSE ~HasForecast(Val(data'))]_vars

C7_Witness ==
    /\ "fit_insufficient" \in log
    /\ "update_ok" \in log
    /\ lr_model = <<>>
    /\ HasForecast(Val(data))

\* A refresh publishes the four source series while no model exists.
PublishedWithoutModel ==
    /\ "update_ok" \in log'
    /\ lr_model' = <<>>
    /\ AllFour(Val(data'))

\* C8 as stated: every such refresh publishes the fallback forecast.
C8_NoModelAlwaysForecasts ==
    [][PublishedWithoutModel =>
          /\ HasForecast(Val(data'))
          /\ Val(data')["forecast_epex_price"] = FallbackSeries(Val(data'))]_vars

\* C8, amended: with a price sensor configured such a refresh publishes the
\* fallback forecast over the timestamps the four series share (none when
\* they share none); with no price sensor it publishes no price forecast.
C8_NoModelFallsBack ==
    [][PublishedWithoutModel =>
          IF price_sensor # <<>> /\ CompleteTimestamps(Val(data')) # <<>>
          THEN /\ HasForecast(Val(data'))
               /\ Val(data')["forecast_epex_price"] = FallbackSeries(Val(data'))
          ELSE ~HasForecast(Val(data'))]_vars

\* A refresh whose refit failed, after a fit had succeeded before, published
\* the fallback forecast.
C8_Witness ==
    /\ "fit_error" \in log
    /\ "update_ok" \in log
    /\ lr_model = <<>>
    /\ last_fit_time # <<>>
    /\ HasForecast(Val(data))

\* C9: a refit that ends below MIN_DATAPOINTS leaves lr_model,
\* model_r2_score, model_datapoints and last_fit_time as they were.
C9_InsufficientFitKeepsModel ==
    [][("fit_insufficient" \in log') => UNCHANGED modelVars]_vars

\* A refit ended below MIN_DATAPOINTS while a model exists.
C9_Witness == "fit_insufficient" \in log /\ lr_model # <<>>

\* The refresh of handler t, with a price sensor configured, got its last
\* fetch answered.
LastFetchAnswered(t) ==
    /\ Stepped(t)
    /\ tasks[t].pc = "fetch"
    /\ tasks[t].i = Len(FetchOrder)
    /\ price_sensor # <<>>

\* The refresh of handler t has entered _fit_lr_model.
RefreshRefits(t) == tasks[t].pc = "history" /\ tasks[t].ctx = "refresh"

\* No model, no fit recorded, or the last fit more than 24 hours ago.
Stale ==
    \/ lr_model = <<>>
    \/ last_fit_time = <<>>
    \/ (now - Val(last_fit_time)) * TickHours > 24

\* C10: a refresh with a price sensor and all four series non-empty refits
\* exactly when no model exists, no fit is recorded, or the last fit is more
\* than 24 hours old.
C10_RefitIffStale ==
    [][\A t \in Handlers :
          LastFetchAnswered(t) =>
              /\ RefreshRefits(t)' => (AllFour(tasks'[t].d) /\ Stale)
              /\ (~RefreshRefits(t)' /\ "update_ok" \in log' /\ AllFour(Val(data')))
                     => ~Stale]_vars

\* A refresh has just entered the refit with a model more than 24 hours old.
C10_Witness ==
    \E t \in Handlers :
        /\ RefreshRefits(t)
        /\ tasks[t].i = 1
        /\ lr_model # <<>>
        /\ last_fit_time # <<>>
        /\ (now - Val(last_fit_time)) * TickHours > 24

\* The step that ends async_config_entry_first_refresh with a price sensor
\* configured, its refresh having succeeded.
SetupCompletes ==
    /\ price_sensor # <<>>
    /\ tasks["first_refresh"].pc # "done"
    /\ tasks'["first_refresh"].pc = "done"
    /\ "update_failed" \notin log'

\* The initial fit of the setup ended in this step.
InitialFitAttempted ==
    log' \cap {"fit_ok", "fit_error", "fit_insufficient"} # {}

\* C11 as stated: when the setup completes with a price sensor, an initial
\* fit has been attempted; lr_model is present and fitted if it succeeded and
\* absent if it failed or found insufficient data.
C11_InitialFitDecidesModel ==
    [][SetupCompletes =>
          /\ InitialFitAttempted
          /\ "fit_ok" \in log' => (lr_model' # <<>> /\ Val(lr_model').is_fitted)
          /\ ("fit_error" \in log' \/ "fit_insufficient" \in log')
                 => lr_model' = <<>>]_vars

\* C11: when the setup completes with a price sensor, an initial fit has
\* been attempted; lr_model is present and fitted if it succeeded, absent if
\* it raised, and what the refresh's own fit attempt left if it found
\* insufficient data.
C11_InitialFitOutcome ==
    [][SetupCompletes =>
          /\ InitialFitAttempted
          /\ "fit_ok" \in log' => (lr_model' # <<>> /\ Val(lr_model').is_fitted)
          /\ "fit_error" \in log' => lr_model' = <<>>
          /\ "fit_insufficient" \in log' => lr_model' = lr_model]_vars

\* The setup has completed, no scheduler started yet: its initial fit found
\* insufficient data after the fit of its refresh had succeeded.
C11_Witness ==
    /\ price_sensor # <<>>
    /\ tasks["first_refresh"].pc = "done"
    /\ cancel_hourly_update = <<>>
    /\ "fit_insufficient" \in log
    /\ lr_model # <<>>

\* C12: once async_config_entry_first_refresh has completed, the hourly and
\* the daily listener are registered and both cancel handles are set.
C12_SchedulersStartedAfterSetup ==
    tasks["first_refresh"].pc = "done"
        => /\ cancel_hourly_update # <<>>
           /\ cancel_daily_refit # <<>>
           /\ Active("hourly")
           /\ Active("daily")

\* C13: after async_shutdown every listener ever registered has been
\* cancelled exactly once, and neither the hourly nor the daily listener can
\* fire.
C13_ShutdownRemovesAllListeners ==
    [][("shutdown" \in log') =>
          /\ \A k \in 1..Len(listeners') : listeners'[k].cancelled = 1
          /\ ~Active("hourly")'
          /\ ~Active("daily")']_vars

\* The step of handler t in which the awaited fetch failed recoverably (a
\* status other than 200, 401 and 403, or aiohttp.ClientError).
FetchUnavailable(t) ==
    /\ Stepped(t)
    /\ tasks[t].pc = "fetch"
    /\ "fetch_unavailable" \in log'

\* The series a fetch of type key may return.
FetchedSeries(key) == {FetchSensorData(r).value : r \in WideResponses(key)}

\* C14: a fetch that fails recoverably does not fail the refresh; it stores
\* an empty series for its type and leaves the series stored for the other
\* types; the map a refresh returns holds for each type the series stored
\* for it, which is one that its fetch returned.
C14_UnavailableTypeAloneIsEmpty ==
    [][\A t \in Handlers :
          /\ FetchUnavailable(t) =>
                /\ "update_failed" \notin log'
                /\ IF tasks[t].i < Len(FetchOrder)
                   THEN /\ tasks'[t].pc = "fetch"
                        /\ tasks'[t].d = Put(tasks[t].d, FetchOrder[tasks[t].i], <<>>)
                   ELSE /\ "update_ok" \in log'
                        /\ Val(data')[FetchOrder[tasks[t].i]] = <<>>
          /\ (Stepped(t) /\ "update_ok" \in log') =>
                /\ SourceKeys \subseteq DOMAIN Val(data')
                /\ \A k \in SourceKeys :
                      /\ k \in DOMAIN tasks[t].d => Val(data')[k] = tasks[t].d[k]
                      /\ Val(data')[k] \in FetchedSeries(k)]_vars

\* A refresh whose first fetch failed recoverably has published a map with
\* an empty consumption series and the records of the three other types.
C14_Witness ==
    /\ "update_ok" \in log
    /\ data # <<>>
    /\ Val(data)["consumption"] = <<>>
    /\ \A k \in SourceKeys \ {"consumption"} : Val(data)[k] # <<>>

\* The keys of a data map that _async_update_data derives.
DerivedKeys ==
    {"total_renewable", "coverage_percentage", "forecast_epex_price",
     "model_r2_score"}

\* C15: a published data map holds a derived key only if all four source
\* series are present and non-empty in it.
C15_DerivedOnlyWithAllFour ==
    data # <<>> =>
        (DerivedKeys \cap DOMAIN Val(data) # {} => AllFour(Val(data)))

\* A refresh returned a map with an empty source series and no derived key
\* while the coordinator holds a model score.
C15_Witness ==
    /\ "update_ok" \in log
    /\ model_r2_score # <<>>
    /\ ~AllFour(Val(data))
    /\ DerivedKeys \cap DOMAIN Val(data) = {}

\* total_renewable at timestamp ts, from the records with that timestamp.
TotalAt(d, ts) ==
    RAdd(RAdd(CombinedGet(d, ts, "wind_onshore"),
              CombinedGet(d, ts, "wind_offshore")),
         RMul(CombinedGet(d, ts, "solar"), SOLAR_ON_GRID_FRACTION))

\* C16: in a published map with all four source series, total_renewable and
\* coverage_percentage hold one observation for each timestamp present in
\* all four, in order, computed from the records of that timestamp (rounded
\* to one decimal as the code rounds): wind_onshore + wind_offshore + solar *
\* fraction, and that total / consumption * 100, or 0 when consumption <= 0.
C16_TotalsKeyedByTimestamp ==
    (data # <<>> /\ AllFour(Val(data))) =>
        LET d == Val(data)
            tss == CompleteTimestamps(d)
        IN  /\ {"total_renewable", "coverage_percentage"} \subseteq DOMAIN d
            /\ Len(d["total_renewable"]) = Len(tss)
            /\ Len(d["coverage_percentage"]) = Len(tss)
            /\ \A k \in 1..Len(tss) :
                  /\ d["total_renewable"][k].timestamp = tss[k]
                  /\ d["total_renewable"][k].capacity
                        = Round(TotalAt(d, tss[k]), 10)
                  /\ d["coverage_percentage"][k].timestamp = tss[k]
                  /\ d["coverage_percentage"][k].capacity
                        = Round(CoveragePct(TotalAt(d, tss[k]),
                                            CombinedGet(d, tss[k], "consumption")),
                                10)

\* A refresh publishes a price forecast computed with the model in use.
PublishedWithModel ==
    /\ "update_ok" \in log'
    /\ HasForecast(Val(data'))
    /\ lr_model' # <<>>

\* v lies in the band -5..50.
InBand(v) == ~RLess(v, RInt(-5)) /\ ~RLess(RInt(50), v)

CommonTimestamps(d) ==
    {ts \in UNION {{d[key][k].timestamp : k \in 1..Len(d[key])} : key \in SourceKeys} :
        /\ ts # 0
        /\ \A key \in SourceKeys : \E k \in 1..Len(d[key]) : d[key][k].timestamp = ts}

\* A refresh with a price sensor and all four series publishes with no
\* model in use: its forecast is the fallback's.
PublishedFallback ==
    /\ "update_ok" \in log'
    /\ price_sensor # <<>>
    /\ AllFour(Val(data'))
    /\ lr_model' = <<>>

\* C18: the fallback forecast holds exactly one entry for each non-empty
\* timestamp common to the four source series, in ascending order, valued
\* 1.08 * (consumption - (wind_onshore + wind_offshore + solar * fraction))
\* + 0.45 of the records with that timestamp, rounded to three decimals; a
\* residual of 7 gives 8.01; without a common timestamp there is no forecast.
C18_FallbackPerCommonTimestamp ==
    [][PublishedFallback =>
          LET d == Val(data')
          IN  IF ~HasForecast(d) THEN CommonTimestamps(d) = {}
              ELSE LET f == d["forecast_epex_price"]
                   IN  /\ {f[k].timestamp : k \in 1..Len(f)} = CommonTimestamps(d)
                       /\ Len(f) = Cardinality(CommonTimestamps(d))
                       /\ \A k \in 1..(Len(f) - 1) :
                             f[k].timestamp < f[k + 1].timestamp
                       /\ \A k \in 1..Len(f) :
                             LET r == ResidualAt(d, f[k].timestamp)
                             IN  /\ f[k].capacity
                                       = Round(RAdd(RMul(Rat(108, 100), r),
                                                    Rat(45, 100)), 1000)
                                 /\ r = RInt(7) => f[k].capacity = Rat(801, 100)]_vars

\* A fallback forecast of several entries was published from series of
\* which one holds a timestamp twice, with an entry of 8.01 for a residual
\* of 7.
C18_Witness ==
    /\ "update_ok" \in log
    /\ price_sensor # <<>>
    /\ lr_model = <<>>
    /\ AllFour(Val(data))
    /\ HasForecast(Val(data))
    /\ Len(Val(data)["forecast_epex_price"]) > 1
    /\ Len(Val(data)["solar"]) > Cardinality({Val(data)["solar"][k].timestamp :
                                                k \in 1..Len(Val(data)["solar"])})
    /\ \E k \in 1..Len(Val(data)["forecast_epex_price"]) :
          /\ Val(data)["forecast_epex_price"][k].capacity = Rat(801, 100)
          /\ ResidualAt(Val(data), Val(data)["forecast_epex_price"][k].timestamp)
                = RInt(7)

\* The series that the fetch step of handler t stored for its type.
StoredSeries(t) ==
    LET key == FetchOrder[tasks[t].i]
    IN  IF key \in DOMAIN tasks'[t].d THEN tasks'[t].d[key]
        ELSE Val(data')[key]

\* The records of a "hydra:member" list on which float() does not raise.
WellFormed(member) ==
    SelectSeq(member, LAMBDA record : FloatError(record.capacity) = "none")

\* The records of member parsed, in the order of the response.
Parsed(member) == [k \in 1..Len(member) |-> ParseRecord(member[k])]

\* The step of handler t in which the parse loop of the awaited fetch raised
\* on a record.
RecordMalformed(t) ==
    /\ Stepped(t)
    /\ tasks[t].pc = "fetch"
    /\ "fetch_unexpected" \in log'
    /\ "http_fatal" \notin log'

\* C19: when a record of a response is malformed, the series stored for the
\* type holds every other record of that response.
C19_MalformedRecordAloneSkipped ==
    [][\A t \in Handlers :
          RecordMalformed(t) =>
              \E r \in WideResponses(FetchOrder[tasks[t].i]) :
                  /\ r.error = "none" /\ r.status = 200
                  /\ FirstMalformed(r.member, 1) # 0
                  /\ Len(StoredSeries(t)) = Len(WellFormed(r.member))
                  /\ \A k \in 1..Len(WellFormed(r.member)) :
                        \E j \in 1..Len(StoredSeries(t)) :
                            StoredSeries(t)[j] = ParseRecord(WellFormed(r.member)[k])]_vars

\* The records of series s with timestamp ts, in their order in s.
WithTimestamp(s, ts) == SelectSeq(s, LAMBDA r : r.timestamp = ts)

\* out is the records of member, normalized: as many, in non-decreasing
\* order of timestamp with the absent ones (0) first, and the records of one
\* timestamp in their order in member.
StablySorted(member, out) ==
    /\ Len(out) = Len(member)
    /\ \A k \in 1..(Len(out) - 1) : out[k].timestamp <= out[k + 1].timestamp
    /\ \A ts \in {member[k].validfrom : k \in 1..Len(member)} :
          WithTimestamp(out, ts) = WithTimestamp(Parsed(member), ts)

\* C20: the series stored for a response of well-formed records is sorted
\* non-decreasing by timestamp, the records without one first, is as long as
\* the response, and keeps records of equal timestamp in response order.
C20_NormalizedStablySorted ==
    [][\A t \in Handlers :
          (Stepped(t) /\ tasks[t].pc = "fetch") =>
              \A r \in WideResponses(FetchOrder[tasks[t].i]) :
                  (/\ r.error = "none" /\ r.status = 200
                   /\ FirstMalformed(r.member, 1) = 0
                   /\ StoredSeries(t) = FetchSensorData(r).value)
                      => StablySorted(r.member, StoredSeries(t))]_vars

\* The first refresh has stored a consumption series that starts with a
\* record without timestamp and a solar series of three records of which the
\* first two share a timestamp and differ; both responses were out of order.
C20_Witness ==
    LET d == tasks["first_refresh"].d
    IN  /\ tasks["first_refresh"].pc = "fetch"
        /\ {"consumption", "solar"} \subseteq DOMAIN d
        /\ Len(d["consumption"]) = 2
        /\ d["consumption"][1].timestamp = 0
        /\ Len(d["solar"]) = 3
        /\ d["solar"][1].timestamp = d["solar"][2].timestamp
        /\ d["solar"][1].capacity # d["solar"][2].capacity

\* C21: every series of a published data map is sorted ascending by
\* timestamp with no timestamp twice.
C21_SeriesUniqueAndAscending ==
    data # <<>> =>
        \A key \in DOMAIN Val(data) :
            \A k \in 1..(Len(Val(data)[key]) - 1) :
                Val(data)[key][k].timestamp < Val(data)[key][k + 1].timestamp

\* A direct run of _fit_lr_model that reached the matching loop.
Refitted == call.op = "_fit_lr_model" /\ call.training # <<>>

\* The hour buckets of the stream of query j in the run just made.
Bucket(j) == BucketStatesByHour(call.historical_records[EntityIds[j]])

\* The consumption hours of the run that have a wind-onshore, a
\* wind-offshore and a price bucket.
RowHours ==
    {h \in DOMAIN Bucket(1) :
        h \in DOMAIN Bucket(2) /\ h \in DOMAIN Bucket(3) /\ h \in DOMAIN Bucket(5)}

\* The solar bucket of hour h, 0.0 where there is none.
SolarOrZero(h) == IF h \in DOMAIN Bucket(4) THEN Bucket(4)[h] ELSE RInt(0)

\* The row of hour h: its single feature and its target.
RowOf(h) ==
    [x |-> <<RSub(Bucket(1)[h],
                  RAdd(RAdd(Bucket(2)[h], Bucket(3)[h]),
                       RMul(SolarOrZero(h), SOLAR_ON_GRID_FRACTION)))>>,
     y |-> Bucket(5)[h]]

MissingHours(j) == Cardinality(DOMAIN Bucket(1) \ DOMAIN Bucket(j))

\* The streams a tip may name, by their query.
TipStreams == [wind_onshore |-> 2, wind_offshore |-> 3, price |-> 5]

\* C23: a refit skipped below MIN_DATAPOINTS names, of wind-onshore,
\* wind-offshore and price, a stream that is missing for the most
\* consumption hours (if any of them is missing at all).
C23_TipNamesLowestCoverage ==
    (Refitted /\ call.tip # <<>>
        /\ \E s \in DOMAIN TipStreams : MissingHours(TipStreams[s]) > 0) =>
        /\ Val(call.tip) \in DOMAIN TipStreams
        /\ \A s \in DOMAIN TipStreams :
               MissingHours(TipStreams[s]) <= MissingHours(TipStreams[Val(call.tip)])

\* A sensor was read; the series it read.
SensorRead == call.op = "read_sensor"
ReadSeries ==
    IF call.key \in DOMAIN Val(data) THEN Val(data)[call.key] ELSE <<>>

\* A series in chronological order, each observation with a timestamp.
Chronological(series) ==
    /\ \A k \in 1..Len(series) : series[k].timestamp > 0
    /\ \A k \in 1..(Len(series) - 1) :
           series[k].timestamp <= series[k + 1].timestamp

\* The positions of the observations of a series not after an instant.
NotAfter(series, instant) ==
    {k \in 1..Len(series) : series[k].timestamp <= instant}

\* The last position of a non-empty set of positions.
LastOf(positions) == CHOOSE k \in positions : \A j \in positions : j <= k

\* The position the current value is to resolve to in a non-empty series.
ResolvedPosition(series, instant) ==
    IF NotAfter(series, instant) = {} THEN 1
    ELSE LastOf(NotAfter(series, instant))

\* C24: read on a chronological series, the sensor's value is that of the
\* last observation not after the instant of the read (to the one decimal
\* the sensor reports), that of the first observation if there is none,
\* and absent if the series is empty.
C24_CurrentValueIsLastNotAfterNow ==
    (SensorRead /\ Chronological(ReadSeries)) =>
        IF ReadSeries = <<>> THEN call.native_value = <<>>
        ELSE call.native_value =
                 Some(Round(ReadSeries[ResolvedPosition(ReadSeries,
                                                        call.instant)].capacity,
                            10))

\* The forecast attribute of the read, empty if it is not set.
ForecastAttribute ==
    IF "forecast" \in DOMAIN call.extra_state_attributes
    THEN call.extra_state_attributes["forecast"] ELSE <<>>

\* The record the value of the read resolved to, in a non-empty series.
ResolvedRecord ==
    LET current_record ==
            ScanRecords(ReadSeries, 1,
                        DatetimeNow(call.instant, call.local_offset), <<>>)
    IN  IF current_record = <<>> THEN ReadSeries[1] ELSE Val(current_record)

\* The observations of a series after position k, as the attribute lists
\* them.
ForwardWindow(series, k) == ForecastList(SubSeq(series, k + 1, Len(series)))

\* C25: the forecast attribute of a read on a chronological series lists
\* all observations of the series, or exactly those after the observation
\* the value resolved to, wherever the instant of the read lies.
C25_ForecastIsForwardWindow ==
    (SensorRead /\ ReadSeries # <<>> /\ Chronological(ReadSeries)) =>
        \/ ForecastAttribute = ForecastList(ReadSeries)
        \/ \E k \in 1..Len(ReadSeries) :
               /\ ReadSeries[k] = ResolvedRecord
               /\ ForecastAttribute = ForwardWindow(ReadSeries, k)

\* The step of handler t ends a refresh cycle whose four series were
\* fetched and whose price forecast could not be computed: the refit it
\* waited for returns, and `combined` raises TypeError.
ForecastFaults(t) ==
    /\ Stepped(t)
    /\ tasks[t].pc = "history"
    /\ tasks[t].ctx = "refresh"
    /\ tasks'[t].ctx # "refresh"
    /\ AllFour(tasks[t].d)
    /\ HasUnhashable(tasks[t].d)

\* C26: a refresh cycle whose price forecast faults still returns its data
\* map, with every source series as it was fetched.
C26_DerivedFaultKeepsRefresh ==
    [][\A t \in Handlers :
          ForecastFaults(t) =>
              /\ "update_ok" \in log'
              /\ "update_failed" \notin log'
              /\ data' # <<>>
              /\ \A key \in SourceKeys :
                     /\ key \in DOMAIN Val(data')
                     /\ Val(data')[key] = tasks[t].d[key]]_vars

\* A data map published after the forecast faulted with a model present
\* (predict path, then the fallback): totals without a price forecast.
C26_Witness ==
    /\ data # <<>>
    /\ AllFour(Val(data))
    /\ HasUnhashable(Val(data))
    /\ "update_ok" \in log
    /\ lr_model # <<>>
    /\ "total_renewable" \in DOMAIN Val(data)
    /\ "forecast_epex_price" \notin DOMAIN Val(data)

\* A direct call of fit has returned or raised.
FitCallEnded == call.op = "fit"

\* C27: fit raises an error, and does not mark the model fitted (it leaves
\* the model as it was), whenever X and y differ in length or X is empty.
C27_FitRejectsMismatchedOrEmpty ==
    (FitCallEnded /\ (Len(call.X) # Len(call.y) \/ Len(call.X) = 0))
        => /\ call.error \in {"LengthMismatch", "Empty"}
           /\ regression.is_fitted = call.self.is_fitted
           /\ regression = call.self

\* fit was called on a fresh model with three rows and two targets.
C27_Witness ==
    /\ FitCallEnded
    /\ ~call.self.is_fitted
    /\ Len(call.X) = 3
    /\ Len(call.y) = 2
    /\ call.error = "LengthMismatch"
    /\ ~regression.is_fitted

\* The feature matrix with the constant column has fewer rows than columns,
\* or its rows are all equal.
InsufficientRank(X) ==
    \/ Len(X) < Len(X[1]) + 1
    \/ \A r \in 1..Len(X) : X[r] = X[1]

\* C28: fit raises the singular-matrix error whenever the feature matrix
\* with the constant column has insufficient rank, and a fresh model on
\* which fit failed in this way stays unfitted, so that predict raises
\* NotFitted on it.
C28_InsufficientRankIsSingular ==
    (/\ FitCallEnded
     /\ Len(call.X) = Len(call.y)
     /\ Len(call.X) > 0
     /\ InsufficientRank(call.X))
        => /\ call.error = "Singular"
           /\ ~call.self.is_fitted => ~regression.is_fitted
           /\ ~call.self.is_fitted =>
                  \A X \in FeatureMatrices :
                      FloatPredict(regression, X).error = "NotFitted"

\* A direct call of predict has returned or raised.
PredictCallEnded == call.op = "predict"

\* The width of the rows of the last successful fit.
FittedWidth(self) == Len(self.coefficients)

\* C29: predict raises NotFitted before any successful fit; it raises the
\* feature-width error, with no partial result, when a row's width differs
\* from the fitted width; otherwise it returns, in row order,
\* intercept + sum of coefficients[i] * x[i] for each row.
C29_PredictContract ==
    PredictCallEnded =>
        IF ~call.self.is_fitted
        THEN call.error = "NotFitted"
        ELSE IF \E k \in 1..Len(call.X) :
                    Len(call.X[k]) # FittedWidth(call.self)
        THEN call.error = "FeatureMismatch" /\ call.value = <<>>
        ELSE /\ call.error = "none"
             /\ call.value =
                    List([k \in 1..Len(call.X) |->
                            FloatPredictRow(call.self, call.X[k], 1,
                                            call.self.intercept)])

\* A direct call of score has returned or raised.
ScoreCallEnded == call.op = "score"

\* The targets are all one value.
ConstantTarget(y) == \A k \in 1..Len(y) : y[k] = y[1]

\* C30: on a fitted model, score of a constant target sequence returns
\* exactly 0.0 and never divides by zero.
C30_ConstantTargetScoresZero ==
    (/\ ScoreCallEnded
     /\ call.self.is_fitted
     /\ ConstantTarget(call.y)
     /\ Len(call.X) = Len(call.y)
     /\ \A k \in 1..Len(call.X) : Len(call.X[k]) = call.self.n_features
     /\ call.self.n_features = FittedWidth(call.self))
        => call.error = "none" /\ call.value = <<RInt(0)>>

\* The least-squares solution of (X, y) in exact arithmetic.
ExactSolution(X, y) == Fit(NewLinearRegression, X, y)

\* The targets are an exactly linear function of the features and the
\* normal matrix is non-singular: the exact solution exists and passes
\* through every target.
ExactlyLinear(X, y) ==
    /\ Len(X) = Len(y)
    /\ Len(X) > 0
    /\ ~ExactSolution(X, y).raised
    /\ Predict(ExactSolution(X, y).self, X).value = y

\* a and b differ by at most four units in the last place of the larger.
WithinTolerance(a, b) ==
    ~RLess(RMax(RAbs(a), RAbs(b)),
           RMul(RInt(Pow2(MantissaBits - 2)), RAbs(RSub(a, b))))

\* C31: when the targets are an exactly linear function of the features
\* and the normal matrix is non-singular, fit succeeds, predict on the
\* training inputs reproduces each target within tolerance, and the stored
\* intercept and coefficients are those of the linear function.
C31_LinearTargetsReproduced ==
    (FitCallEnded /\ ExactlyLinear(call.X, call.y))
        => /\ call.error = "none"
           /\ FloatPredict(regression, call.X).error = "none"
           /\ \A k \in 1..Len(call.y) :
                  WithinTolerance(FloatPredict(regression, call.X).value[k],
                                  call.y[k])
           /\ WithinTolerance(regression.intercept,
                              ExactSolution(call.X, call.y).self.intercept)
           /\ \A i \in 1..Len(regression.coefficients) :
                  WithinTolerance(regression.coefficients[i],
                                  ExactSolution(call.X, call.y).self.coefficients[i])

\* The states of the stream of query j in the run just made.
Stream(j) == call.historical_records[EntityIds[j]]

\* The positions of the states of stream j whose value is a number and
\* whose timestamp lies in hour h.
NumericAt(j, h) ==
    {k \in 1..Len(Stream(j)) :
        /\ ParseFloat(Stream(j)[k].state).ok
        /\ h <= Stream(j)[k].last_updated
        /\ Stream(j)[k].last_updated < h + 60}

\* The sum of the numbers of stream j at the positions ks.
RECURSIVE SumAt(_, _)
SumAt(j, ks) ==
    IF ks = {} THEN RInt(0)
    ELSE LET k == CHOOSE x \in ks : TRUE
         IN  RAdd(ParseFloat(Stream(j)[k].state).value, SumAt(j, ks \ {k}))

\* The hours any state of stream j lies in.
StreamHours(j) ==
    {60 * (Stream(j)[k].last_updated \div 60) : k \in 1..Len(Stream(j))}

\* C32: the hourly buckets of a stream have a key h exactly when a state
\* with a numeric value lies in hour h, and the value at h is the
\* arithmetic mean of the numeric values of that hour; states that are no
\* number are skipped one by one, so that no bucket is empty.
C32_BucketsAreHourlyMeans ==
    (call.op = "_fit_lr_model" /\ call.training # <<>>) =>
        \A j \in 1..Len(EntityIds) :
            /\ DOMAIN Bucket(j) = {h \in StreamHours(j) : NumericAt(j, h) # {}}
            /\ \A h \in DOMAIN Bucket(j) :
                   /\ NumericAt(j, h) # {}
                   /\ RMul(Bucket(j)[h], RInt(Cardinality(NumericAt(j, h))))
                          = SumAt(j, NumericAt(j, h))

\* A run whose consumption stream has an hour with two numeric states of
\* different values and an hour with a numeric and a non-numeric state,
\* and whose wind-onshore stream has a non-numeric state.
C32_Witness ==
    /\ call.op = "_fit_lr_model"
    /\ call.training # <<>>
    /\ \E h \in DOMAIN Bucket(1) :
           /\ Cardinality(NumericAt(1, h)) = 2
           /\ \E k \in NumericAt(1, h) :
                  ParseFloat(Stream(1)[k].state).value # Bucket(1)[h]
    /\ \E k \in 1..Len(Stream(2)) : ~ParseFloat(Stream(2)[k].state).ok
    /\ \E h \in StreamHours(5) : h \notin DOMAIN Bucket(1)

\* The consumption hours of the run that gave no training row.
SkippedHours == DOMAIN Bucket(1) \ RowHours

\* The sum of the per-reason skip counts of the run.
SkipCounts ==
    Val(call.training).missing_wind_on + Val(call.training).missing_wind_off
        + Val(call.training).missing_price

\* The coverage counters of a run that do add up: the solar counts to the
\* consumption hours, the rows to matched_hours and to the targets, the
\* rows and the skipped hours to the consumption hours.
CountersAddUp ==
    /\ Val(call.training).solar_real_count + Val(call.training).solar_imputed_count
           = Cardinality(DOMAIN Bucket(1))
    /\ Val(call.training).total_consumption_hours = Cardinality(DOMAIN Bucket(1))
    /\ Len(Val(call.training).X_list) = Val(call.training).matched_hours
    /\ Len(Val(call.training).X_list) = Len(Val(call.training).y_list)
    /\ Len(Val(call.training).X_list) + Cardinality(SkippedHours)
           = Cardinality(DOMAIN Bucket(1))

\* C33 (as stated): the coverage accounting of a refit is consistent: the
\* solar counts add up to the consumption hours, the rows equal matched_hours
\* and the targets, rows plus skipped hours equal the consumption hours, and
\* the per-reason skip counts add up to the number of skipped hours.
C33_SkipCountsAddUpToSkippedHours ==
    Refitted => CountersAddUp /\ SkipCounts = Cardinality(SkippedHours)

\* C33 (amended): the solar counts, the rows and the skipped hours add up as
\* stated; each per-reason skip count is the number of consumption hours
\* that lack that stream, so an hour that lacks two streams is counted
\* twice: the counts add up to at least the number of skipped hours, and to
\* exactly that number only when no hour lacks two streams.
C33_SkipCountsPerReason ==
    Refitted =>
        /\ CountersAddUp
        /\ Val(call.training).missing_wind_on = MissingHours(2)
        /\ Val(call.training).missing_wind_off = MissingHours(3)
        /\ Val(call.training).missing_price = MissingHours(5)
        /\ SkipCounts >= Cardinality(SkippedHours)
        /\ SkipCounts <= 3 * Cardinality(SkippedHours)
        /\ (SkipCounts = Cardinality(SkippedHours)) <=>
               \A h \in SkippedHours :
                   Cardinality({j \in {2, 3, 5} : h \notin DOMAIN Bucket(j)}) = 1

\* A refit with a training row, an hour skipped for one missing stream and
\* an hour skipped for two.
C33_Witness ==
    /\ Refitted
    /\ RowHours # {}
    /\ \E h \in SkippedHours :
           Cardinality({j \in {2, 3, 5} : h \notin DOMAIN Bucket(j)}) = 1
    /\ \E h \in SkippedHours :
           Cardinality({j \in {2, 3, 5} : h \notin DOMAIN Bucket(j)}) = 2
    /\ SkipCounts > Cardinality(SkippedHours)

\* A run of _handle_daily_refit whose refit succeeded has ended, before
\* the model of that refit became due for a refit, with a published map
\* that holds a forecast.
DailyPublished ==
    /\ call.op = "_handle_daily_refit"
    /\ call.stage = "ended"
    /\ call.fitted # <<>>
    /\ ~ShouldRefit(call.fit_time, now)
    /\ call.published # <<>>
    /\ "forecast_epex_price" \in DOMAIN Val(call.published)

\* The forecast the source series of the map d give with the model.
ForecastWith(d, model) ==
    LET out == EpexForecastAfterFit(d, model)
    IN  IF "forecast_epex_price" \in DOMAIN out
        THEN out["forecast_epex_price"] ELSE <<>>

\* C34: the daily handler runs its refit to the end before it starts its
\* refresh, and when that refit succeeded the forecast the refresh
\* publishes is the one computed with the model the refit produced.
C34_DailyRefreshUsesRefittedModel ==
    /\ (call.op = "_handle_daily_refit" /\ call.stage = "refit") =>
           tasks["daily"].pc = "history" /\ tasks["daily"].ctx = "daily"
    /\ (call.op = "_handle_daily_refit" /\ tasks["daily"].pc = "fetch") =>
           call.stage = "refresh"
    /\ DailyPublished =>
           Val(call.published)["forecast_epex_price"]
               = ForecastWith(Val(call.published), call.fitted)

\* The timestamps (hashable ones) that all four source series of d hold.
SharedTimestamps(d) ==
    {ts \in {d["wind_onshore"][k].timestamp : k \in 1..Len(d["wind_onshore"])}
              \ {0, Unhashable} :
        \A key \in SourceKeys :
            \E k \in 1..Len(d[key]) : d[key][k].timestamp = ts}

\* The fallback price of the timestamp ts of d, rounded to three decimals.
FallbackAt(d, ts) ==
    Round(RAdd(RMul(Rat(108, 100), ResidualAt(d, ts)), Rat(45, 100)), 1000)

\* A direct call of _calculate_epex_forecast_lr whose regression path
\* raised.
ForecastExcepted ==
    call.op = "_calculate_epex_forecast_lr" /\ call.excepted

\* C35: when the regression path of the forecast raises (predict raising),
\* the forecast is computed with the fallback formula: if the four source
\* series share a timestamp, forecast_epex_price is present and holds, for
\* each shared timestamp in order, the fallback price and nothing else.
C35_FaultFallsBackToFormula ==
    (ForecastExcepted /\ AllFour(call.d) /\ SharedTimestamps(call.d) # {}) =>
        /\ "forecast_epex_price" \in DOMAIN call.out
        /\ Len(call.out["forecast_epex_price"])
               = Cardinality(SharedTimestamps(call.d))
        /\ \A k \in 1..Len(call.out["forecast_epex_price"]) :
               /\ call.out["forecast_epex_price"][k].timestamp
                      = SortedSeq(SharedTimestamps(call.d))[k]
               /\ call.out["forecast_epex_price"][k].capacity
                      = FallbackAt(call.d, SortedSeq(SharedTimestamps(call.d))[k])

\* predict raised on a never fitted model, with two timestamps shared and a
\* fallback price that the one-feature model of InjectedModels would not
\* have given.
C35_Witness ==
    /\ ForecastExcepted
    /\ ~call.model.is_fitted
    /\ Cardinality(SharedTimestamps(call.d)) >= 2
    /\ "forecast_epex_price" \in DOMAIN call.out
    /\ \E good \in InjectedModels :
           /\ ~LrForecast(call.d, good).raised
           /\ LrForecast(call.d, good).value["forecast_epex_price"]
                  # call.out["forecast_epex_price"]

\* C36: after setup from an entry the config flow created, the coordinator's
\* price_sensor is the sensor selected in the flow and its forecast_hours is
\* the horizon entered in the flow.
C36_CoordinatorUsesFlowValues ==
    (flow.coordinator # <<>>) =>
        /\ Val(flow.coordinator).price_sensor =
               Some(Val(flow.entry).data["price_sensor"])
        /\ Val(flow.coordinator).forecast_hours =
               Val(flow.entry).data["forecast_hours"]

\* C37: the config flow creates an entry only in step price_sensor, for a
\* sensor the state store has a state for, and with a key stored by a call
\* of step user whose test request was answered 200; a call of step user
\* with any other answer shows step user again with error invalid_auth, a
\* call of step price_sensor for a sensor without state shows step
\* price_sensor again with error sensor_not_found, neither creating an
\* entry; and step price_sensor is reached from step user only, by a call
\* with a validated key.
C37_EntryOnlyAfterValidation ==
    [][/\ (flow.entry = <<>> /\ flow'.entry # <<>>) =>
              /\ flow.step = "price_sensor"
              /\ flow.api_key # <<>>
              /\ flow'.step = "create_entry"
              /\ flow'.last.step = "price_sensor"
              /\ flow'.last.state # <<>>
              /\ Val(flow'.entry).data["price_sensor"] = Val(flow'.last.sensor)
              /\ Val(flow'.entry).data["api_key"] = Val(flow.api_key)
       /\ (flow'.api_key # flow.api_key) =>
              /\ flow.step = "user"
              /\ flow'.last.step = "user"
              /\ ValidateApiKey(flow'.last.response)
       /\ (flow.step = "user" /\ flow'.last.step = "user"
             /\ flow'.last.response \notin {"none", "200"}) =>
              /\ flow'.step = "user"
              /\ flow'.errors = Put(EmptyDict, "base", "invalid_auth")
              /\ flow'.entry = <<>>
              /\ flow'.api_key = flow.api_key
       /\ (flow.step = "price_sensor" /\ flow'.last.step = "price_sensor"
             /\ flow'.last.state = <<>>) =>
              /\ flow'.step = "price_sensor"
              /\ flow'.errors = Put(EmptyDict, "base", "sensor_not_found")
              /\ flow'.entry = <<>>
       /\ (flow.step # "price_sensor" /\ flow'.step = "price_sensor") =>
              /\ flow.step = "user"
              /\ flow'.last.step = "user"
              /\ ValidateApiKey(flow'.last.response)
              /\ flow'.api_key # <<>>]_vars

\* An entry was created, for a sensor with a state and with the stored key.
C37_Witness ==
    /\ flow.step = "create_entry"
    /\ flow.entry # <<>>
    /\ flow.last.step = "price_sensor"
    /\ flow.last.state # <<>>
    /\ Val(flow.entry).data["api_key"] = Val(flow.api_key)

\* C38: a fit that raises on a fitted LinearRegression leaves the instance
\* as it was: coefficients, intercept, n_features and the fitted flag keep
\* their values.
C38_FailedFitLeavesFittedModel ==
    (FitCallEnded /\ call.self.is_fitted /\ call.error # "none")
        => regression = call.self

\* C39: with no price sensor configured no fit is ever attempted and no
\* model ever exists: lr_model, model_r2_score, model_datapoints and
\* last_fit_time stay None, no handler is inside _fit_lr_model, no step logs
\* the end of a fit, and neither the published map nor a map a refresh is
\* building contains model_r2_score.
C39_NoPriceSensorNoModel ==
    (price_sensor = <<>>) =>
        /\ lr_model = <<>>
        /\ model_r2_score = <<>>
        /\ model_datapoints = <<>>
        /\ last_fit_time = <<>>
        /\ \A t \in Handlers :
               /\ tasks[t].pc # "history"
               /\ tasks[t].ctx = "none"
               /\ "model_r2_score" \notin DOMAIN tasks[t].d
        /\ log \cap {"fit_ok", "fit_error", "fit_insufficient"} = {}
        /\ (data # <<>>) => "model_r2_score" \notin DOMAIN Val(data)

\* Without a price sensor the setup has ended, the daily listener is
\* registered and a refresh has just published a map with the totals.
C39_Witness ==
    /\ price_sensor = <<>>
    /\ tasks["first_refresh"].pc = "done"
    /\ cancel_daily_refit # <<>>
    /\ "update_ok" \in log
    /\ data # <<>>
    /\ "coverage_percentage" \in DOMAIN Val(data)

====
